---- MODULE Spec2Model ----
(***************************************************************************)
(* Model of the property store, change propagation and transition          *)
(* controller of rui views (view.go, animation.go, the animation-events    *)
(* file and the drop-down list), and of the animation objects and the      *)
(* keyframe registration of a session (animation.go).                      *)
(*                                                                         *)
(* A view is one record (the fields of viewData / dropDownListData); every *)
(* method of the source is an operator from a view record to a view        *)
(* record, so that a method calling another method is operator             *)
(* composition.  The instructions sent to the rendering surface, the       *)
(* listener invocations and the log lines of the current operation are     *)
(* collected in the fields out, calls and log.                             *)
(***************************************************************************)
EXTENDS Integers, Sequences, FiniteSets, TLC

\* view: the view; hist: the calls made so far; outstanding: the tags with an
\* override begun and not ended; loopVarShared: whether a range loop has one
\* variable for all its iterations; animations: the Animation objects;
\* sessions: the sessions
VARIABLES view, loopVarShared, hist, outstanding, animations, sessions

vars == <<view, loopVarShared, hist, outstanding, animations, sessions>>

-----------------------------------------------------------------------------
(* Bounds of the model *)

\* number of operations explored in one behaviour of the transition controller
MaxOps == 3

\* number of operations explored in one behaviour of the property store
MaxStoreOps == 2

\* the number of operations on the listener tags in a behaviour of SpecListeners
MaxListenerOps == 1

\* the number of operations on the animations in a behaviour of SpecAnimation
MaxAnimationOps == 2

\* the number of operations on the border tags in a behaviour of SpecBorder
MaxBorderOps == 2

\* the number of mutations in a behaviour of SpecNotify
MaxNotifyOps == 1

\* the number of operations in a behaviour of SpecNil
MaxNilOps == 2

\* the number of operations in a behaviour of SpecEvents
MaxEventOps == 2

-----------------------------------------------------------------------------
(* Go values (interface{}) *)

Nil == [t |-> "nil"]
Str(s) == [t |-> "string", s |-> s]
Float(n) == [t |-> "float", n |-> n]          \* n in tenths: Float(5) is 0.5
IntVal(n) == [t |-> "int", n |-> n]
Bool(b) == [t |-> "bool", b |-> b]
\* a function value; shape is its signature, id = 0 is a nil function
\*   "vs" func(View, string)   "s" func(string)   "v" func(View)   "0" func()
\*   "li" func(DropDownList, int)   "i" func(int)
Func(shape, id) == [t |-> "func", shape |-> shape, id |-> id]
\* a typed slice of functions, []func(...), as the sequence of their ids
FuncList(shape, ids) == [t |-> "funclist", shape |-> shape, ids |-> ids]
\* []interface{}
AnyList(elems) == [t |-> "anylist", elems |-> elems]
\* []string
StrList(ss) == [t |-> "strlist", ss |-> ss]
\* []int
IntList(ns) == [t |-> "intlist", ns |-> ns]
\* []fmt.Stringer as the strings its elements print; "<nil>" is a nil element
StringerList(ss) == [t |-> "stringerlist", ss |-> ss]

\* Params whose values are Animations, as the map from tag to animation
Params(m) == [t |-> "params", m |-> m]

\* the nil Animation stored in singleTransition when the tag had no transition
NilAnimation == "nil"
\* A0 is declared as a steady transition, A1 and A2 are used as overrides
SteadyAnimations == {"A0"}
Animations == {"A1", "A2"}

-----------------------------------------------------------------------------
(* Go maps *)

EmptyMap == [k \in {} |-> k]
MapPut(m, k, x) == [y \in (DOMAIN m) \cup {k} |-> IF y = k THEN x ELSE m[y]]
MapDel(m, k) == [y \in (DOMAIN m) \ {k} |-> m[y]]
Has(m, k) == k \in DOMAIN m

-----------------------------------------------------------------------------
(* Tags *)

ID == "id"
Style == "style"
StyleDisabled == "style-disabled"
UserData == "user-data"
Opacity == "opacity"
Transition == "transition"
Items == "items"
DisabledItems == "disabled-items"
Current == "current"
DropDownEvent == "drop-down-event"
TransitionRunEvent == "transition-run-event"
TransitionStartEvent == "transition-start-event"
TransitionEndEvent == "transition-end-event"
TransitionCancelEvent == "transition-cancel-event"
AnimationStartEvent == "animation-start-event"
AnimationEndEvent == "animation-end-event"
AnimationCancelEvent == "animation-cancel-event"
AnimationIterationEvent == "animation-iteration-event"

TransitionEventTags ==
    {TransitionRunEvent, TransitionStartEvent, TransitionEndEvent, TransitionCancelEvent}
AnimationEventTags ==
    {AnimationStartEvent, AnimationEndEvent, AnimationIterationEvent, AnimationCancelEvent}

\* strings.ToLower on the spellings the model uses
UpperSpellings ==
    [s \in {"Opacity", "OPACITY", "Id", "Style", "Items", "Current",
            "Transition-End-Event", "Disabled-Items", "Drop-Down-Event",
            "Border-Left-Width"} |->
        CASE s = "Opacity" -> "opacity"
          [] s = "Border-Left-Width" -> "border-left-width"
          [] s = "OPACITY" -> "opacity"
          [] s = "Id" -> "id"
          [] s = "Style" -> "style"
          [] s = "Items" -> "items"
          [] s = "Current" -> "current"
          [] s = "Transition-End-Event" -> "transition-end-event"
          [] s = "Disabled-Items" -> "disabled-items"
          [] s = "Drop-Down-Event" -> "drop-down-event"]

ToLower(s) == IF s \in DOMAIN UpperSpellings THEN UpperSpellings[s] ELSE s

-----------------------------------------------------------------------------
(* Effects of an operation: instructions, listener calls, log lines *)

Emit(v, f, p, x) == [v EXCEPT !.out = Append(@, [f |-> f, p |-> p, x |-> x])]

updateProperty(v, p, x) == Emit(v, "updateProperty", p, x)
removeProperty(v, p) == Emit(v, "removeProperty", p, <<>>)
updateCSSProperty(v, p, x) == Emit(v, "updateCSSProperty", p, x)
updateInnerHTML(v) == Emit(v, "updateInnerHTML", "", <<>>)
runScript(v, p, x) == Emit(v, "runScript", p, x)

notCompatibleType(v, tag, value) ==
    [v EXCEPT !.log = Append(@, [tag |-> tag, value |-> value])]

\* a call of the function fn with the arguments args
Call(v, fn, args) == [v EXCEPT !.calls = Append(@, [fn |-> fn, args |-> args])]

-----------------------------------------------------------------------------
(* Listener normalisation, valueToAnimationListeners *)

\* A canonical listener func(View, string): the original function id and the
\* shape that says which of (view, payload) it is given.
Canon(shape, id) == [shape |-> shape, id |-> id]

ListenerShapes == {"vs", "s", "v", "0"}

\* the wrappers built by "for i, v := range value { listeners[i] = func(...) { v(...) } }":
\* with one v per loop (Go before 1.22) every closure calls the last element,
\* with one v per iteration (Go 1.22 and later) the i-th closure calls the i-th.
RangeClosures(shape, ids) ==
    [i \in 1..Len(ids) |->
        Canon(shape, IF loopVarShared THEN ids[Len(ids)] ELSE ids[i])]

\* the elements of a []interface{} that are functions of an accepted signature
AcceptedElem(e) == e.t = "func" /\ e.shape \in ListenerShapes

\* result: ls the canonical list, isNil whether the Go result is a nil slice
valueToAnimationListeners(value) ==
    CASE value.t = "nil" -> [ls |-> <<>>, isNil |-> TRUE, ok |-> TRUE]
      [] value.t = "func" /\ value.shape \in ListenerShapes ->
            [ls |-> <<Canon(value.shape, value.id)>>, isNil |-> FALSE, ok |-> TRUE]
      [] value.t = "funclist" /\ value.shape \in ListenerShapes ->
            IF Len(value.ids) = 0
            THEN [ls |-> <<>>, isNil |-> TRUE, ok |-> TRUE]
            ELSE IF \E i \in 1..Len(value.ids) : value.ids[i] = 0
            THEN [ls |-> <<>>, isNil |-> TRUE, ok |-> FALSE]
            ELSE IF value.shape = "vs"
            THEN [ls |-> [i \in 1..Len(value.ids) |-> Canon("vs", value.ids[i])],
                  isNil |-> FALSE, ok |-> TRUE]
            ELSE [ls |-> RangeClosures(value.shape, value.ids),
                  isNil |-> FALSE, ok |-> TRUE]
      [] value.t = "anylist" ->
            IF Len(value.elems) = 0
            THEN [ls |-> <<>>, isNil |-> TRUE, ok |-> TRUE]
            ELSE IF \E i \in 1..Len(value.elems) : ~AcceptedElem(value.elems[i])
            THEN [ls |-> <<>>, isNil |-> TRUE, ok |-> FALSE]
            ELSE [ls |-> [i \in 1..Len(value.elems) |->
                            Canon(value.elems[i].shape, value.elems[i].id)],
                  isNil |-> FALSE, ok |-> TRUE]
      [] OTHER -> [ls |-> <<>>, isNil |-> TRUE, ok |-> FALSE]

\* the stored value of a listener property
Listeners(ls) == [t |-> "listeners", ls |-> ls, isNil |-> FALSE]

\* calling a canonical listener with (view, payload); a nil function panics.
\* seen records what the listener finds in singleTransition when it is called.
Invoke(v, l, payload) ==
    IF l.id = 0
    THEN [v EXCEPT !.panicked = TRUE]
    ELSE [Call(v, l.id,
               CASE l.shape = "vs" -> <<"view", payload>>
                 [] l.shape = "s" -> <<payload>>
                 [] l.shape = "v" -> <<"view">>
                 [] OTHER -> <<>>)
            EXCEPT !.seen = Append(@, DOMAIN v.singleTransition)]

RECURSIVE InvokeAll(_, _, _)
InvokeAll(v, ls, payload) ==
    IF ls = <<>> \/ v.panicked
    THEN v
    ELSE InvokeAll(Invoke(v, Head(ls), payload), Tail(ls), payload)

-----------------------------------------------------------------------------
(* Change notification, viewData.propertyChangedEvent *)

BorderFamily ==
    {"border-left", "border-right", "border-top", "border-bottom",
     "border-style", "border-left-style", "border-right-style", "border-top-style",
     "border-bottom-style",
     "border-color", "border-left-color", "border-right-color", "border-top-color",
     "border-bottom-color",
     "border-width", "border-left-width", "border-right-width", "border-top-width",
     "border-bottom-width"}
CellBorderFamily ==
    {"cell-border-style", "cell-border-color", "cell-border-width",
     "cell-border-left", "cell-border-left-style", "cell-border-left-color",
     "cell-border-left-width",
     "cell-border-right", "cell-border-right-style", "cell-border-right-color",
     "cell-border-right-width",
     "cell-border-top", "cell-border-top-style", "cell-border-top-color",
     "cell-border-top-width",
     "cell-border-bottom", "cell-border-bottom-style", "cell-border-bottom-color",
     "cell-border-bottom-width"}
OutlineFamily == {"outline-color", "outline-style", "outline-width"}
RadiusFamily ==
    {"radius-x", "radius-y", "radius-top-left", "radius-top-left-x", "radius-top-left-y",
     "radius-top-right", "radius-top-right-x", "radius-top-right-y",
     "radius-bottom-left", "radius-bottom-left-x", "radius-bottom-left-y",
     "radius-bottom-right", "radius-bottom-right-x", "radius-bottom-right-y"}
MarginFamily ==
    {"margin-top", "margin-right", "margin-bottom", "margin-left",
     "top-margin", "right-margin", "bottom-margin", "left-margin"}
PaddingFamily ==
    {"padding-top", "padding-right", "padding-bottom", "padding-left",
     "top-padding", "right-padding", "bottom-padding", "left-padding"}
CellPaddingFamily ==
    {"cell-padding-top", "cell-padding-right", "cell-padding-bottom", "cell-padding-left"}
ColumnSeparatorFamily ==
    {"column-separator-style", "column-separator-width", "column-separator-color"}

\* the group tag of a sub-tag, "" when the tag belongs to no family
GroupTag(tag) ==
    CASE tag \in BorderFamily -> "border"
      [] tag \in CellBorderFamily -> "cell-border"
      [] tag \in OutlineFamily -> "outline"
      [] tag \in RadiusFamily -> "radius"
      [] tag \in MarginFamily -> "margin"
      [] tag \in PaddingFamily -> "padding"
      [] tag \in CellPaddingFamily -> "cell-padding"
      [] tag \in ColumnSeparatorFamily -> "column-separator"
      [] OTHER -> ""

\* a notification that calls the listener of the group before that of the tag
propertyChangedEvent_groupFirst(v, tag) ==
    LET group == IF tag \in {"border-left-width", "border-top"} THEN "border"
                 ELSE IF tag = "margin-top" THEN "margin" ELSE ""
        v1 == IF group # "" /\ group \in DOMAIN v.changeListener
              THEN [v EXCEPT !.calls = Append(@, [fn |-> v.changeListener[group],
                                                  args |-> <<"view", group>>])]
              ELSE v
    IN  IF tag \in DOMAIN v1.changeListener
        THEN [v1 EXCEPT !.calls = Append(@, [fn |-> v1.changeListener[tag],
                                             args |-> <<"view", tag>>])]
        ELSE v1

propertyChangedEvent(v, tag) ==
    LET v1 == IF Has(v.changeListener, tag)
              THEN Call(v, v.changeListener[tag], <<"view", tag>>)
              ELSE v
        group == GroupTag(tag)
    IN  IF group = ""
        THEN v1
        ELSE IF Has(v1.changeListener, group)
        THEN Call(v1, v1.changeListener[group], <<"view", group>>)
        ELSE v1

SetChangeListener(v, tag, listener) ==
    IF listener = 0
    THEN [v EXCEPT !.changeListener = MapDel(@, tag)]
    ELSE [v EXCEPT !.changeListener = MapPut(@, tag, listener)]

-----------------------------------------------------------------------------
(* The style store, viewStyle.set / remove / get and the typed getters *)

\* the border tags
Border == "border"
BorderWidth == "border-width"
BorderColor == "border-color"
BorderStyle == "border-style"
BorderEdgeTags == {"border-left", "border-right", "border-top", "border-bottom"}
BorderStyleTags ==
    {BorderStyle, "border-left-style", "border-right-style", "border-top-style",
     "border-bottom-style"}
BorderColorTags ==
    {BorderColor, "border-left-color", "border-right-color", "border-top-color",
     "border-bottom-color"}
BorderWidthTags ==
    {BorderWidth, "border-left-width", "border-right-width", "border-top-width",
     "border-bottom-width"}

\* the tags of the families whose value is a size
SizeTags ==
    BorderWidthTags
        \cup {"cell-border-width", "cell-border-left-width", "cell-border-right-width",
              "cell-border-top-width", "cell-border-bottom-width", "outline-width",
              "column-separator-width"}
        \cup RadiusFamily
        \cup {"margin-top", "margin-right", "margin-bottom", "margin-left"}
        \cup {"padding-top", "padding-right", "padding-bottom", "padding-left"}
        \cup CellPaddingFamily

\* strconv.ParseFloat on the numeric strings the model uses, in tenths
NumericStrings == [s \in {"0.5", "1"} |-> IF s = "0.5" THEN 5 ELSE 10]

\* the tags of the style store that the model sets, all of kind float in [0, 1]
FloatTags == {Opacity}

\* Set("transition", Params): every entry is put into transitions under the
\* lower-case tag
RECURSIVE mergeTransitions(_, _)
mergeTransitions(transitions, m) ==
    IF DOMAIN m = {}
    THEN transitions
    ELSE LET k == CHOOSE x \in DOMAIN m : TRUE
         IN  mergeTransitions(MapPut(transitions, ToLower(k), m[k]), MapDel(m, k))

viewStyleSet(v, tag, value) ==
    IF tag = Transition
    THEN IF value.t = "params"
         THEN [v |-> [v EXCEPT !.transitions = mergeTransitions(@, value.m)], ok |-> TRUE]
         ELSE [v |-> notCompatibleType(v, tag, value), ok |-> FALSE]
    ELSE IF tag \in FloatTags
    THEN CASE value.t = "float" /\ value.n >= 0 /\ value.n <= 10 ->
                [v |-> [v EXCEPT !.properties = MapPut(@, tag, value)], ok |-> TRUE]
           [] value.t = "string" /\ value.s \in DOMAIN NumericStrings ->
                [v |-> [v EXCEPT !.properties = MapPut(@, tag, Float(NumericStrings[value.s]))],
                 ok |-> TRUE]
           [] OTHER -> [v |-> notCompatibleType(v, tag, value), ok |-> FALSE]
    ELSE IF tag \in SizeTags
    THEN IF value.t = "float" /\ value.n >= 0
         THEN [v |-> [v EXCEPT !.properties = MapPut(@, tag, value)], ok |-> TRUE]
         ELSE [v |-> notCompatibleType(v, tag, value), ok |-> FALSE]
    ELSE IF tag \in BorderEdgeTags \cup {Border}
    THEN IF value.t = "params"
         THEN [v |-> [v EXCEPT !.properties = MapPut(@, tag, value)], ok |-> TRUE]
         ELSE [v |-> notCompatibleType(v, tag, value), ok |-> FALSE]
    ELSE [v |-> notCompatibleType(v, tag, value), ok |-> FALSE]

viewStyleRemove(v, tag) == [v EXCEPT !.properties = MapDel(@, tag)]

viewStyleGet(v, tag) == IF Has(v.properties, tag) THEN v.properties[tag] ELSE Nil

\* the aggregate transition declaration, viewStyle.transitionCSS: one entry per
\* key of transitions (the order of a Go map is not fixed, so the set of entries)
transitionCSS(v) == v.transitions

updateTransitionCSS(v) == updateCSSProperty(v, "transition", transitionCSS(v))

\* htmlClass for a view that is not disabled
htmlClass(v) ==
    IF Has(v.properties, Style) THEN <<"ruiView", v.properties[Style].s>> ELSE <<"ruiView">>

\* GetOutline, GetRadius, GetMargin, GetPadding followed by cssString: the CSS
\* value of a group is made of the properties of the group that are set
groupCSS(v, group) ==
    [group |-> group,
     m |-> [k \in {t \in DOMAIN v.properties : t = group \/ GroupTag(t) = group} |->
               v.properties[k]]]

\* getBorder(view, Border): the configured border, the border properties of the
\* store, or nil when none of them is set
getBorder(v) ==
    LET tags == DOMAIN v.properties \cap (BorderFamily \cup {Border})
    IN  IF tags = {} THEN Nil ELSE [t |-> "border", m |-> [k \in tags |-> v.properties[k]]]

\* border.cssWidthValue, cssColorValue, cssStyleValue: the value of one CSS
\* property of the configured border
borderCSS(border, part) == [part |-> part, border |-> border.m]

\* the three updates of the cases Border and BorderLeft ... BorderBottom
updateBorderCSS(v) ==
    IF getBorder(v) # Nil
    THEN updateCSSProperty(
             updateCSSProperty(
                 updateCSSProperty(v, BorderWidth, borderCSS(getBorder(v), "width")),
                 BorderColor, borderCSS(getBorder(v), "color")),
             BorderStyle, borderCSS(getBorder(v), "style"))
    ELSE v

viewPropertyChanged(v, tag) ==
    CASE tag = Transition -> updateTransitionCSS(v)
      [] tag = Border ->
            IF getBorder(v) = Nil
            THEN updateCSSProperty(
                     updateCSSProperty(updateCSSProperty(v, BorderWidth, ""),
                                       BorderColor, ""),
                     BorderStyle, "none")
            ELSE updateBorderCSS(v)
      [] tag \in BorderEdgeTags -> updateBorderCSS(v)
      [] tag \in BorderStyleTags ->
            IF getBorder(v) # Nil
            THEN updateCSSProperty(v, BorderStyle, borderCSS(getBorder(v), "style"))
            ELSE v
      [] tag \in BorderColorTags ->
            IF getBorder(v) # Nil
            THEN updateCSSProperty(v, BorderColor, borderCSS(getBorder(v), "color"))
            ELSE v
      [] tag \in BorderWidthTags ->
            IF getBorder(v) # Nil
            THEN updateCSSProperty(v, BorderWidth, borderCSS(getBorder(v), "width"))
            ELSE v
      [] tag \in OutlineFamily \cup {"outline"} ->
            updateCSSProperty(v, "outline", groupCSS(v, "outline"))
      [] tag \in RadiusFamily \cup {"radius"} ->
            updateCSSProperty(v, "border-radius", groupCSS(v, "radius"))
      [] tag \in MarginFamily \cup {"margin"} ->
            updateCSSProperty(v, "margin", groupCSS(v, "margin"))
      [] tag \in PaddingFamily \cup {"padding"} ->
            updateCSSProperty(v, "padding", groupCSS(v, "padding"))
      [] tag \in FloatTags ->
            IF Has(v.properties, tag)
            THEN updateCSSProperty(v, tag, v.properties[tag].n)
            ELSE v
      [] OTHER -> v

-----------------------------------------------------------------------------
(* Transition and animation listeners (the animation-events file) *)

\* the JavaScript event attribute of a listener tag, transitionEvents / animationEvents
jsEvent(tag) ==
    CASE tag = TransitionRunEvent -> "ontransitionrun"
      [] tag = TransitionStartEvent -> "ontransitionstart"
      [] tag = TransitionEndEvent -> "ontransitionend"
      [] tag = TransitionCancelEvent -> "ontransitioncancel"
      [] tag = AnimationStartEvent -> "onanimationstart"
      [] tag = AnimationEndEvent -> "onanimationend"
      [] tag = AnimationIterationEvent -> "onanimationiteration"
      [] tag = AnimationCancelEvent -> "onanimationcancel"
      [] OTHER -> ""

removeTransitionListener(v, tag) ==
    LET v1 == [v EXCEPT !.properties = MapDel(@, tag)]
    IN  IF v1.created /\ tag \in TransitionEventTags
        THEN removeProperty(v1, jsEvent(tag))
        ELSE v1

setTransitionListener(v, tag, value) ==
    LET r == valueToAnimationListeners(value)
    IN  IF ~r.ok
        THEN [v |-> notCompatibleType(v, tag, value), ok |-> FALSE]
        ELSE IF r.isNil
        THEN [v |-> removeTransitionListener(v, tag), ok |-> TRUE]
        ELSE IF tag \in TransitionEventTags
        THEN LET v1 == [v EXCEPT !.properties = MapPut(@, tag, Listeners(r.ls))]
             IN  [v |-> IF v1.created
                        THEN updateProperty(v1, jsEvent(tag), "(this, event)")
                        ELSE v1,
                  ok |-> TRUE]
        ELSE [v |-> v, ok |-> FALSE]

removeAnimationListener(v, tag) ==
    LET v1 == [v EXCEPT !.properties = MapDel(@, tag)]
    IN  IF v1.created /\ tag \in AnimationEventTags
        THEN removeProperty(v1, jsEvent(tag))
        ELSE v1

setAnimationListener(v, tag, value) ==
    LET r == valueToAnimationListeners(value)
    IN  IF ~r.ok
        THEN [v |-> notCompatibleType(v, tag, value), ok |-> FALSE]
        ELSE IF r.isNil
        THEN [v |-> removeAnimationListener(v, tag), ok |-> TRUE]
        ELSE IF tag \in AnimationEventTags
        THEN LET v1 == [v EXCEPT !.properties = MapPut(@, tag, Listeners(r.ls))]
             IN  [v |-> IF v1.created
                        THEN updateProperty(v1, jsEvent(tag), "(this, event)")
                        ELSE v1,
                  ok |-> TRUE]
        ELSE [v |-> v, ok |-> FALSE]

-----------------------------------------------------------------------------
(* The base view, viewData.remove / set / get *)

viewRemove(v, tag) ==
    LET v1 ==
          CASE tag = ID -> [v EXCEPT !.viewID = ""]
            [] tag = UserData -> [v EXCEPT !.properties = MapDel(@, tag)]
            [] tag \in {Style, StyleDisabled} ->
                  IF Has(v.properties, tag)
                  THEN LET w == [v EXCEPT !.properties = MapDel(@, tag)]
                       IN  updateProperty(w, "class", htmlClass(w))
                  ELSE v
            [] tag \in TransitionEventTags -> removeTransitionListener(v, tag)
            [] tag \in AnimationEventTags -> removeAnimationListener(v, tag)
            [] OTHER -> viewPropertyChanged(viewStyleRemove(v, tag), tag)
    IN  propertyChangedEvent(v1, tag)

\* the closure "result" of viewData.set
setResult(r, tag) == IF r.ok THEN [v |-> propertyChangedEvent(r.v, tag), ok |-> TRUE] ELSE r

viewSet(v, tag, value) ==
    IF value.t = "nil"
    THEN [v |-> viewRemove(v, tag), ok |-> TRUE]
    ELSE
      CASE tag = ID ->
              IF value.t # "string"
              THEN [v |-> notCompatibleType(v, ID, value), ok |-> FALSE]
              ELSE [v |-> propertyChangedEvent([v EXCEPT !.viewID = value.s], tag),
                    ok |-> TRUE]
        [] tag = UserData ->
              [v |-> propertyChangedEvent(
                        [v EXCEPT !.properties = MapPut(@, tag, value)], tag),
               ok |-> TRUE]
        [] tag \in {Style, StyleDisabled} ->
              IF value.t # "string"
              THEN [v |-> notCompatibleType(v, ID, value), ok |-> FALSE]
              ELSE LET w == [v EXCEPT !.properties = MapPut(@, tag, value)]
                       w1 == IF w.created
                             THEN updateProperty(w, "class", htmlClass(w))
                             ELSE w
                   IN  [v |-> propertyChangedEvent(w1, tag), ok |-> TRUE]
        [] tag \in TransitionEventTags ->
              setResult(setTransitionListener(v, tag, value), tag)
        [] tag \in AnimationEventTags ->
              setResult(setAnimationListener(v, tag, value), tag)
        [] OTHER ->
              LET r == viewStyleSet(v, tag, value)
              IN  IF ~r.ok
                  THEN r
                  ELSE LET w == IF r.v.created
                                THEN viewPropertyChanged(r.v, tag)
                                ELSE r.v
                       IN  [v |-> propertyChangedEvent(w, tag), ok |-> TRUE]

viewGet(v, tag) ==
    IF tag = ID
    THEN IF v.viewID # "" THEN Str(v.viewID) ELSE Nil
    ELSE viewStyleGet(v, tag)

\* the exported methods of viewData lower the tag first
viewDataSet(v, tag, value) == viewSet(v, ToLower(tag), value)
viewDataRemove(v, tag) == viewRemove(v, ToLower(tag))
viewDataGet(v, tag) == viewGet(v, ToLower(tag))

-----------------------------------------------------------------------------
(* The drop-down list (dropDownListData) *)

\* []DataValue as a sequence of [obj, s]: whether the element is an object, its text
DataList(elems) == [t |-> "datalist", elems |-> elems]

\* strconv.Itoa, strconv.Atoi and fmt.Sprintf("%g") on the values the model uses
DecimalStrings == {"0", "1", "2"}
Atoi(s) == CASE s = "0" -> 0 [] s = "1" -> 1 [] s = "2" -> 2
Itoa(n) == CASE n = 0 -> "0" [] n = 1 -> "1" [] n = 2 -> "2" [] OTHER -> "n"
FormatFloat(n) ==
    CASE n = 5 -> "0.5" [] n = 10 -> "1" [] n = 0 -> "0" [] n = 20 -> "2"
      [] n = 0 - 5 -> "-0.5" [] OTHER -> "f"

\* strings.Split(value, ",") with every part trimmed, on the strings the model uses
SplitComma(s) ==
    CASE s = "0,1" -> <<"0", "1">>
      [] s = "1,,2" -> <<"1", "", "2">>
      [] s = "@c, 1" -> <<"@c", "1">>
      [] OTHER -> <<s>>

\* isConstantName: the name of a constant starts with '@'
isConstantName(s) == s \in {"@c"}

\* intProperty(list, Current, session, 0)
GetCurrent(v) == IF Has(v.properties, Current) THEN v.properties[Current].n ELSE 0

\* propertyList.setIntProperty: an int or a decimal string
setIntProperty(v, tag, value) ==
    CASE value.t = "int" ->
            [v |-> [v EXCEPT !.properties = MapPut(@, tag, value)], ok |-> TRUE]
      [] value.t = "string" /\ value.s \in DecimalStrings ->
            [v |-> [v EXCEPT !.properties = MapPut(@, tag, IntVal(Atoi(value.s)))],
             ok |-> TRUE]
      [] OTHER -> [v |-> notCompatibleType(v, tag, value), ok |-> FALSE]

\* calling a drop-down listener with (list, number); a nil function panics
InvokeDropDown(v, l, number) ==
    IF l.id = 0
    THEN [v EXCEPT !.panicked = TRUE]
    ELSE Call(v, l.id, IF l.shape = "li" THEN <<"list", number>> ELSE <<number>>)

RECURSIVE InvokeAllDropDown(_, _, _)
InvokeAllDropDown(v, ls, number) ==
    IF ls = <<>> \/ v.panicked
    THEN v
    ELSE InvokeAllDropDown(InvokeDropDown(v, Head(ls), number), Tail(ls), number)

onSelectedItemChanged(v, number) ==
    LET v1 == InvokeAllDropDown(v, v.dropDownListener, number)
    IN  IF v1.panicked THEN v1 ELSE propertyChangedEvent(v1, Current)

listRemove(v, tag) ==
    CASE tag = Items ->
            IF Len(v.items) > 0
            THEN LET w == [v EXCEPT !.items = <<>>]
                     w1 == IF w.created THEN updateInnerHTML(w) ELSE w
                 IN  propertyChangedEvent(w1, tag)
            ELSE v
      [] tag = DisabledItems ->
            IF Len(v.disabledItems) > 0
            THEN LET w == [v EXCEPT !.disabledItems = <<>>]
                     w1 == IF w.created THEN updateInnerHTML(w) ELSE w
                 IN  propertyChangedEvent(w1, tag)
            ELSE v
      [] tag = DropDownEvent ->
            IF Len(v.dropDownListener) > 0
            THEN propertyChangedEvent([v EXCEPT !.dropDownListener = <<>>], tag)
            ELSE v
      [] tag = Current ->
            LET oldCurrent == GetCurrent(v)
                w == [v EXCEPT !.properties = MapDel(@, Current)]
            IN  IF oldCurrent # 0
                THEN onSelectedItemChanged(
                        IF w.created THEN runScript(w, "selectDropDownListItem", 0) ELSE w,
                        0)
                ELSE w
      [] OTHER -> viewRemove(v, tag)

\* the string of one element of a []interface{} given as items; ok is false
\* for an element of no accepted type
itemString(e) ==
    CASE e.t = "string" -> [s |-> e.s, ok |-> TRUE]
      [] e.t = "bool" -> [s |-> IF e.b THEN "true" ELSE "false", ok |-> TRUE]
      [] e.t = "float" -> [s |-> FormatFloat(e.n), ok |-> TRUE]
      [] e.t = "int" -> [s |-> Itoa(e.n), ok |-> TRUE]
      [] OTHER -> [s |-> "", ok |-> FALSE]

\* the texts of the elements of a []DataValue that are not objects
RECURSIVE dataValues(_)
dataValues(elems) ==
    IF elems = <<>>
    THEN <<>>
    ELSE IF Head(elems).obj
    THEN dataValues(Tail(elems))
    ELSE <<Head(elems).s>> \o dataValues(Tail(elems))

\* the end of setItems and of setDisabledItems: the list is redrawn and the
\* change of the tag is notified
listChanged(v, tag) ==
    propertyChangedEvent(IF v.created THEN updateInnerHTML(v) ELSE v, tag)

\* a []fmt.Stringer: the slice is replaced first, then filled element by
\* element, and String() on a nil element panics
setStringerItems(v, ss) ==
    IF \E i \in 1..Len(ss) : ss[i] = "<nil>"
    THEN LET k == CHOOSE i \in 1..Len(ss) :
                    ss[i] = "<nil>" /\ \A j \in 1..(i - 1) : ss[j] # "<nil>"
         IN  [v |-> [v EXCEPT !.items = [i \in 1..Len(ss) |-> IF i < k THEN ss[i] ELSE ""],
                              !.panicked = TRUE],
              ok |-> FALSE]
    ELSE [v |-> listChanged([v EXCEPT !.items = ss], Items), ok |-> TRUE]

setItems_partial(v, value) ==
    CASE value.t = "string" ->
            [v |-> listChanged([v EXCEPT !.items = <<value.s>>], Items), ok |-> TRUE]
      [] value.t = "strlist" ->
            [v |-> listChanged([v EXCEPT !.items = value.ss], Items), ok |-> TRUE]
      [] value.t = "datalist" ->
            [v |-> listChanged([v EXCEPT !.items = dataValues(value.elems)], Items),
             ok |-> TRUE]
      [] value.t = "stringerlist" -> setStringerItems(v, value.ss)
      [] value.t = "anylist" ->
            IF \E i \in 1..Len(value.elems) : ~itemString(value.elems[i]).ok
            THEN [v |-> notCompatibleType(
                          [v EXCEPT !.items = SelectSeq(
                              [i \in 1..Len(value.elems) |-> itemString(value.elems[i]).s],
                              LAMBDA x : x # "")],
                          Items, value),
                  ok |-> FALSE]
            ELSE [v |-> listChanged(
                          [v EXCEPT !.items =
                              [i \in 1..Len(value.elems) |-> itemString(value.elems[i]).s]],
                          Items),
                  ok |-> TRUE]
      [] OTHER -> [v |-> notCompatibleType(v, Items, value), ok |-> FALSE]

setItems(v, value) ==
    CASE value.t = "string" ->
            [v |-> listChanged([v EXCEPT !.items = <<value.s>>], Items), ok |-> TRUE]
      [] value.t = "strlist" ->
            [v |-> listChanged([v EXCEPT !.items = value.ss], Items), ok |-> TRUE]
      [] value.t = "datalist" ->
            [v |-> listChanged([v EXCEPT !.items = dataValues(value.elems)], Items),
             ok |-> TRUE]
      [] value.t = "stringerlist" -> setStringerItems(v, value.ss)
      [] value.t = "anylist" ->
            IF \E i \in 1..Len(value.elems) : ~itemString(value.elems[i]).ok
            THEN [v |-> notCompatibleType(v, Items, value), ok |-> FALSE]
            ELSE [v |-> listChanged(
                          [v EXCEPT !.items =
                              [i \in 1..Len(value.elems) |-> itemString(value.elems[i]).s]],
                          Items),
                  ok |-> TRUE]
      [] OTHER -> [v |-> notCompatibleType(v, Items, value), ok |-> FALSE]

\* one element of the disabled items given as string: a constant name is kept,
\* a decimal string becomes its number
disabledString(s) ==
    IF isConstantName(s)
    THEN [x |-> Str(s), ok |-> TRUE]
    ELSE IF s \in DecimalStrings
    THEN [x |-> IntVal(Atoi(s)), ok |-> TRUE]
    ELSE [x |-> Nil, ok |-> FALSE]

\* one element of a []interface{} given as disabled items
disabledElem(e) ==
    CASE e.t = "string" -> disabledString(e.s)
      [] e.t = "int" -> [x |-> e, ok |-> TRUE]
      [] OTHER -> [x |-> Nil, ok |-> FALSE]

\* setDisabledItems notifies the change of "items"
setDisabledItems(v, value) ==
    CASE value.t = "intlist" ->
            [v |-> listChanged(
                      [v EXCEPT !.disabledItems =
                          [i \in 1..Len(value.ns) |-> IntVal(value.ns[i])]],
                      Items),
             ok |-> TRUE]
      [] value.t = "anylist" ->
            IF \E i \in 1..Len(value.elems) : ~disabledElem(value.elems[i]).ok
            THEN [v |-> notCompatibleType(v, DisabledItems, value), ok |-> FALSE]
            ELSE [v |-> listChanged(
                          [v EXCEPT !.disabledItems =
                              [i \in 1..Len(value.elems) |-> disabledElem(value.elems[i]).x]],
                          Items),
                  ok |-> TRUE]
      [] value.t = "string" ->
            LET parts == SplitComma(value.s)
            IN  IF \E i \in 1..Len(parts) : ~disabledString(parts[i]).ok
                THEN [v |-> notCompatibleType(v, DisabledItems, value), ok |-> FALSE]
                ELSE [v |-> listChanged(
                              [v EXCEPT !.disabledItems =
                                  [i \in 1..Len(parts) |-> disabledString(parts[i]).x]],
                              Items),
                      ok |-> TRUE]
      [] value.t = "datalist" ->
            \* the texts are passed on as a []string, which no case accepts
            [v |-> notCompatibleType(v, DisabledItems, StrList(dataValues(value.elems))),
             ok |-> FALSE]
      [] OTHER -> [v |-> notCompatibleType(v, DisabledItems, value), ok |-> FALSE]

DropDownShapes == {"li", "i"}

dropDownElem(e) == e.t = "func" /\ e.shape \in DropDownShapes

setDropDownListener(v, value) ==
    LET done(ls) ==
            [v |-> propertyChangedEvent([v EXCEPT !.dropDownListener = ls], DropDownEvent),
             ok |-> TRUE]
        fail == [v |-> notCompatibleType(v, DropDownEvent, value), ok |-> FALSE]
    IN  CASE value.t = "func" /\ value.shape \in DropDownShapes ->
                done(<<Canon(value.shape, value.id)>>)
          [] value.t = "funclist" /\ value.shape = "li" ->
                done([i \in 1..Len(value.ids) |-> Canon("li", value.ids[i])])
          [] value.t = "funclist" /\ value.shape = "i" ->
                IF \E i \in 1..Len(value.ids) : value.ids[i] = 0
                THEN fail
                ELSE done(RangeClosures("i", value.ids))
          [] value.t = "anylist" ->
                IF \E i \in 1..Len(value.elems) : ~dropDownElem(value.elems[i])
                THEN fail
                ELSE done([i \in 1..Len(value.elems) |->
                              Canon(value.elems[i].shape, value.elems[i].id)])
          [] OTHER -> fail

\* a set that answers true to nil without removing anything
listSet_keepsOnNil(v, tag, value) ==
    IF value.t = "nil"
    THEN [v |-> v, ok |-> TRUE]
    ELSE
      CASE tag = Items -> setItems(v, value)
        [] tag = DisabledItems -> setDisabledItems(v, value)
        [] tag = DropDownEvent -> setDropDownListener(v, value)
        [] tag = Current ->
              LET oldCurrent == GetCurrent(v)
                  r == setIntProperty(v, Current, value)
              IN  IF ~r.ok
                  THEN r
                  ELSE LET current == GetCurrent(r.v)
                       IN  IF oldCurrent # current
                           THEN [v |-> onSelectedItemChanged(
                                          IF r.v.created
                                          THEN runScript(r.v, "selectDropDownListItem", current)
                                          ELSE r.v,
                                          current),
                                 ok |-> TRUE]
                           ELSE r
        [] OTHER -> viewSet(v, tag, value)

\* dropDownListData.set
listSet(v, tag, value) ==
    IF value.t = "nil"
    THEN [v |-> listRemove(v, tag), ok |-> TRUE]
    ELSE
      CASE tag = Items -> setItems(v, value)
        [] tag = DisabledItems -> setDisabledItems(v, value)
        [] tag = DropDownEvent -> setDropDownListener(v, value)
        [] tag = Current ->
              LET oldCurrent == GetCurrent(v)
                  r == setIntProperty(v, Current, value)
              IN  IF ~r.ok
                  THEN r
                  ELSE LET current == GetCurrent(r.v)
                       IN  IF oldCurrent # current
                           THEN [v |-> onSelectedItemChanged(
                                          IF r.v.created
                                          THEN runScript(r.v, "selectDropDownListItem", current)
                                          ELSE r.v,
                                          current),
                                 ok |-> TRUE]
                           ELSE r
        [] OTHER -> viewSet(v, tag, value)

\* the stored drop-down listeners as a value
DropDownListeners(ls) == [t |-> "ddlisteners", ls |-> ls]

listGet(v, tag) ==
    CASE tag = Items -> StrList(v.items)
      [] tag = DisabledItems -> AnyList(v.disabledItems)
      [] tag = Current -> IntVal(GetCurrent(v))
      [] tag = DropDownEvent -> DropDownListeners(v.dropDownListener)
      [] OTHER -> viewGet(v, tag)

-----------------------------------------------------------------------------
(* The methods of the View interface, dispatched on the type of the view *)

Set(v, tag, value) ==
    IF v.kind = "DropDownList"
    THEN listSet(v, ToLower(tag), value)
    ELSE viewSet(v, ToLower(tag), value)

Remove(v, tag) ==
    IF v.kind = "DropDownList"
    THEN listRemove(v, ToLower(tag))
    ELSE viewRemove(v, ToLower(tag))

Get(v, tag) ==
    IF v.kind = "DropDownList"
    THEN listGet(v, ToLower(tag))
    ELSE viewGet(v, ToLower(tag))

-----------------------------------------------------------------------------
(* The transition controller *)

\* SetAnimated indexes transitions and singleTransition with the tag as given
animatedKey(tag) == tag

\* the override is installed: the current transition of the key (or the nil
\* Animation) is saved in singleTransition and the animation takes its place
saveTransition_keepSaved(v, key, animation) ==
    [v EXCEPT
       !.singleTransition =
           IF Has(@, key)
           THEN @
           ELSE MapPut(@, key, IF Has(v.transitions, key)
                               THEN v.transitions[key]
                               ELSE NilAnimation),
       !.transitions = MapPut(@, key, animation)]

saveTransition_forget(v, key, animation) ==
    [v EXCEPT
       !.singleTransition = MapPut(@, key, NilAnimation),
       !.transitions = MapPut(@, key, animation)]

saveTransition(v, key, animation) ==
    [v EXCEPT
       !.singleTransition =
           MapPut(@, key, IF Has(v.transitions, key)
                          THEN v.transitions[key]
                          ELSE NilAnimation),
       !.transitions = MapPut(@, key, animation)]

\* the failure path of SetAnimated
rollbackTransition(v, key) ==
    updateTransitionCSS([v EXCEPT !.singleTransition = MapDel(@, key)])

SetAnimated(v, tag, value, animation) ==
    IF animation = NilAnimation
    THEN viewDataSet(v, tag, value)
    ELSE
      LET key == animatedKey(tag)
          v1 == updateProperty(v, "ontransitionend", "transitionEndEvent(this, event)")
          v2 == updateProperty(v1, "ontransitioncancel", "transitionCancelEvent(this, event)")
          v3 == updateTransitionCSS(saveTransition(v2, key, animation))
          r == viewDataSet(v3, tag, value)
      IN  IF ~r.ok
          THEN [v |-> rollbackTransition(r.v, key), ok |-> FALSE]
          ELSE r

\* the result of a lookup that finds no view
NoView == [kind |-> "nil"]

\* viewData.ViewByID: the view itself when the id is its id, else nil
ViewByID(v, id) == IF id = v.viewID THEN v ELSE NoView

\* a getter that returns nil when there is nothing to return
getListenerSlice_nil(v, subviewID, tag) ==
    LET target == IF subviewID # "" THEN ViewByID(v, subviewID) ELSE v
    IN  IF target.kind = "nil"
        THEN [ls |-> <<>>, isNil |-> TRUE]
        ELSE LET value == Get(target, tag)
             IN  IF value.t = "listeners"
                 THEN [ls |-> value.ls, isNil |-> value.isNil]
                 ELSE [ls |-> <<>>, isNil |-> TRUE]

\* getAnimationListeners(view, subviewID, tag) as a slice: its elements and
\* whether it is nil
getListenerSlice(v, subviewID, tag) ==
    LET target == IF subviewID # "" THEN ViewByID(v, subviewID) ELSE v
    IN  IF target.kind = "nil"
        THEN [ls |-> <<>>, isNil |-> FALSE]
        ELSE LET value == Get(target, tag)
             IN  IF value.t = "listeners"
                 THEN [ls |-> value.ls, isNil |-> value.isNil]
                 ELSE [ls |-> <<>>, isNil |-> FALSE]

\* getAnimationListeners(view, "", tag): an empty list, never nil
getAnimationListeners(v, tag) == getListenerSlice(v, "", tag).ls

\* the events that end an override
isTerminalEvent_any(tag) == TRUE

isTerminalEvent(tag) == tag = TransitionEndEvent \/ tag = TransitionCancelEvent

\* the saved transition of the property is put back
restoreTransition_drop(v, property) ==
    updateTransitionCSS(
        [v EXCEPT !.singleTransition = MapDel(@, property),
                  !.transitions = MapDel(@, property)])

restoreTransition(v, property) ==
    LET animation == v.singleTransition[property]
    IN  updateTransitionCSS(
            [v EXCEPT
               !.singleTransition = MapDel(@, property),
               !.transitions = IF animation # NilAnimation
                               THEN MapPut(@, property, animation)
                               ELSE MapDel(@, property)])

\* a handler that calls the listeners before it puts the saved transition back
handleTransitionEvents_listenersFirst(v, tag, data) ==
    IF "property" \notin DOMAIN data
    THEN v
    ELSE
      LET property == data["property"]
          ls == IF tag \in DOMAIN v.properties /\ v.properties[tag].t = "listeners"
                THEN v.properties[tag].ls
                ELSE <<>>
          called == [v EXCEPT
                       !.calls = @ \o [j \in 1..Len(ls) |->
                                          [fn |-> ls[j].id,
                                           args |-> IF ls[j].shape = "vs"
                                                    THEN <<"view", property>>
                                                    ELSE <<property>>]],
                       !.seen = @ \o [j \in 1..Len(ls) |-> DOMAIN v.singleTransition]]
      IN  IF tag \in {"transition-end-event", "transition-cancel-event"}
             /\ property \in DOMAIN v.singleTransition
          THEN [called EXCEPT
                  !.singleTransition = [k \in DOMAIN @ \ {property} |-> @[k]],
                  !.out = Append(@, [f |-> "updateCSSProperty", p |-> "transition",
                                     x |-> called.transitions])]
          ELSE called

\* a handler that puts a transition back at every end or cancel event, whether
\* the property has an override or not
handleTransitionEvents_unguarded(v, tag, data) ==
    IF "property" \notin DOMAIN data
    THEN v
    ELSE
      LET property == data["property"]
          ls == IF tag \in DOMAIN v.properties /\ v.properties[tag].t = "listeners"
                THEN v.properties[tag].ls
                ELSE <<>>
          saved == IF property \in DOMAIN v.singleTransition
                   THEN v.singleTransition[property]
                   ELSE "nil"
          kept == IF saved # "nil"
                  THEN [k \in DOMAIN v.transitions \cup {property} |->
                           IF k = property THEN saved ELSE v.transitions[k]]
                  ELSE [k \in DOMAIN v.transitions \ {property} |-> v.transitions[k]]
          v1 == IF tag \in {"transition-end-event", "transition-cancel-event"}
                THEN [v EXCEPT
                        !.singleTransition = [k \in DOMAIN @ \ {property} |-> @[k]],
                        !.transitions = kept,
                        !.out = Append(@, [f |-> "updateCSSProperty", p |-> "transition",
                                           x |-> kept])]
                ELSE v
      IN  [v1 EXCEPT
             !.calls = @ \o [j \in 1..Len(ls) |->
                                [fn |-> ls[j].id,
                                 args |-> IF ls[j].shape = "vs"
                                          THEN <<"view", property>>
                                          ELSE <<property>>]],
             !.seen = @ \o [j \in 1..Len(ls) |-> DOMAIN v1.singleTransition]]

\* data is the property bag of the event, a map that may hold "property"
handleTransitionEvents(v, tag, data) ==
    IF ~Has(data, "property")
    THEN v
    ELSE
      LET property == data["property"]
          v1 == IF isTerminalEvent(tag) /\ Has(v.singleTransition, property)
                THEN restoreTransition(v, property)
                ELSE v
      IN  InvokeAll(v1, getAnimationListeners(v1, tag), property)

\* the id of the animation whose keyframes have the name; anims are the
\* records [name, id] of GetAnimation(view, ""), id "" when the animation has none
RECURSIVE animationIDByName(_, _, _)
animationIDByName(anims, name, id) ==
    IF anims = <<>>
    THEN id
    ELSE animationIDByName(Tail(anims), name,
                           IF Head(anims).name = name THEN Head(anims).id ELSE id)

handleAnimationEvents(v, tag, data, anims) ==
    LET listeners == getAnimationListeners(v, tag)
    IN  IF Len(listeners) = 0
        THEN v
        ELSE InvokeAll(v, listeners,
                       IF Has(data, "name")
                       THEN animationIDByName(anims, data["name"], "")
                       ELSE "")

\* viewData.getTransitions: a copy of transitions
getTransitions(v) == v.transitions

\* AddTransition(view, "", tag, animation)
AddTransition(v, tag, animation) ==
    IF tag = ""
    THEN [v |-> v, ok |-> FALSE]
    ELSE Set(v, Transition, Params(MapPut(getTransitions(v), tag, animation)))

\* viewData.htmlProperties: the view is written to the page
htmlProperties(v) == [v EXCEPT !.created = TRUE]

-----------------------------------------------------------------------------
(* Construction *)

\* viewData.Init / dropDownListData.Init
NewViewData(kind) ==
    [kind |-> kind, viewID |-> "", properties |-> EmptyMap,
     transitions |-> EmptyMap, singleTransition |-> EmptyMap,
     changeListener |-> EmptyMap, created |-> FALSE,
     items |-> <<>>, disabledItems |-> <<>>, dropDownListener |-> <<>>,
     out |-> <<>>, calls |-> <<>>, seen |-> <<>>, log |-> <<>>, panicked |-> FALSE]

\* the effects collected in a view record are those of the current operation
Begin(v) == [v EXCEPT !.out = <<>>, !.calls = <<>>, !.seen = <<>>, !.log = <<>>]

-----------------------------------------------------------------------------
(* The transition controller as a state machine: specification Spec *)

\* the tags, values and event properties the operations are called with
AnimatedTags == {"opacity", "Opacity"}
AnimatedValues == {Float(5), Str("abc")}
TerminalEvents == {TransitionEndEvent, TransitionCancelEvent}

\* NewView(session, params) with a listener for the run and for the end event
InitParamsView ==
    LET v0 == NewViewData("View")
        v1 == viewDataSet(v0, TransitionRunEvent, Func("vs", 1)).v
        v2 == viewDataSet(v1, TransitionEndEvent, Func("s", 2)).v
    IN  Begin(v2)

\* no slice of listeners is set under this specification, so the scope of the
\* range variable has no effect; it is fixed here
Init ==
    /\ view = InitParamsView
    /\ loopVarShared = FALSE
    /\ hist = <<>>
    /\ outstanding = {}
    /\ animations = <<>>
    /\ sessions = <<>>

\* one entry of hist: the operation, its arguments, its result, and the view
\* before and after it
Entry(op, tag, value, animation, ok, pre, post) ==
    [op |-> op, tag |-> tag, value |-> value, animation |-> animation,
     ok |-> ok, pre |-> pre, post |-> post]

DoSetAnimated ==
    \E tag \in AnimatedTags, value \in AnimatedValues,
       animation \in Animations \cup {NilAnimation} :
        LET r == SetAnimated(Begin(view), tag, value, animation)
        IN  /\ Len(hist) < MaxOps
            /\ view' = r.v
            /\ hist' = Append(hist, Entry("SetAnimated", tag, value, animation,
                                          r.ok, view, r.v))
            /\ outstanding' = IF animation # NilAnimation /\ r.ok
                              THEN outstanding \cup {tag}
                              ELSE outstanding
            /\ UNCHANGED <<loopVarShared, animations, sessions>>

DoSet ==
    \E tag \in AnimatedTags, value \in AnimatedValues \cup {Nil} :
        LET r == viewDataSet(Begin(view), tag, value)
        IN  /\ Len(hist) < MaxOps
            /\ view' = r.v
            /\ hist' = Append(hist, Entry("Set", tag, value, NilAnimation,
                                          r.ok, view, r.v))
            /\ UNCHANGED <<loopVarShared, outstanding, animations, sessions>>

DoRemove ==
    \E tag \in AnimatedTags :
        LET w == viewDataRemove(Begin(view), tag)
        IN  /\ Len(hist) < MaxOps
            /\ view' = w
            /\ hist' = Append(hist, Entry("Remove", tag, Nil, NilAnimation,
                                          TRUE, view, w))
            /\ UNCHANGED <<loopVarShared, outstanding, animations, sessions>>

\* a steady transition is declared for a tag
DoAddTransition ==
    \E tag \in AnimatedTags, animation \in SteadyAnimations :
        LET r == AddTransition(Begin(view), tag, animation)
        IN  /\ Len(hist) < MaxOps
            /\ view' = r.v
            /\ hist' = Append(hist, Entry("AddTransition", tag, Nil, animation,
                                          r.ok, view, r.v))
            /\ UNCHANGED <<loopVarShared, outstanding, animations, sessions>>

\* handleCommand with one of the four transition events
DoTransitionEvent ==
    \E kind \in TransitionEventTags, property \in AnimatedTags :
        LET w == handleTransitionEvents(Begin(view), kind,
                                        [k \in {"property"} |-> property])
        IN  /\ Len(hist) < MaxOps
            /\ view' = w
            /\ hist' = Append(hist, Entry(kind, property, Nil, NilAnimation,
                                          TRUE, view, w))
            /\ outstanding' = IF kind \in TerminalEvents
                              THEN outstanding \ {property}
                              ELSE outstanding
            /\ UNCHANGED <<loopVarShared, animations, sessions>>

\* the view is rendered
DoCreate ==
    /\ ~view.created
    /\ Len(hist) < MaxOps
    /\ view' = htmlProperties(Begin(view))
    /\ hist' = Append(hist, Entry("Create", "", Nil, NilAnimation, TRUE,
                                  view, htmlProperties(Begin(view))))
    /\ UNCHANGED <<loopVarShared, outstanding, animations, sessions>>

Next ==
    \/ DoSetAnimated
    \/ DoSet
    \/ DoRemove
    \/ DoAddTransition
    \/ DoTransitionEvent
    \/ DoCreate

Spec == Init /\ [][Next]_vars

-----------------------------------------------------------------------------
(* Properties of the transition controller, checked under Spec *)

HistIdx == 1..Len(hist)

\* an animated-set call that supplies an animation
IsOverride(e) == e.op = "SetAnimated" /\ e.animation # NilAnimation

\* the value is accepted by the coercion of the tag
Accepted(tag, value) == viewDataSet(NewViewData("View"), tag, value).ok

\* what transitions holds for the tag, the nil Animation when it has no entry
TransitionOf(v, tag) ==
    IF Has(v.transitions, tag) THEN v.transitions[tag] ELSE NilAnimation

EventData(property) == [k \in {"property"} |-> property]

\* C2: a tag is a key of singleTransition if and only if an override installed by
\* SetAnimated for that tag is outstanding (no end or cancel event received yet).
C2_SingleTransitionIffOutstanding ==
    DOMAIN view.singleTransition = outstanding

\* C3: after SetAnimated(tag, value, A) with a non-nil A and an accepted value,
\* the call has returned true, singleTransition[tag] holds what transitions[tag]
\* held before the call (the nil Animation if it had none) and transitions[tag] = A.
C3_OverrideInstalled ==
    \A i \in HistIdx :
        LET e == hist[i]
        IN  (IsOverride(e) /\ Accepted(e.tag, e.value)) =>
                /\ e.ok
                /\ Has(e.post.singleTransition, e.tag)
                /\ e.post.singleTransition[e.tag] = TransitionOf(e.pre, e.tag)
                /\ Has(e.post.transitions, e.tag)
                /\ e.post.transitions[e.tag] = e.animation

\* an override was installed over a transition the tag already had
C3_Witness ==
    \E i \in HistIdx :
        /\ IsOverride(hist[i]) /\ hist[i].ok
        /\ Has(hist[i].pre.transitions, hist[i].tag)
        /\ hist[i].pre.transitions[hist[i].tag] \in SteadyAnimations

\* the round trip of C4 at positions i, i+1 of the history
RoundTripAt(i) ==
    /\ i + 1 \in HistIdx
    /\ IsOverride(hist[i]) /\ hist[i].ok
    /\ ~Has(hist[i].pre.singleTransition, hist[i].tag)
    /\ hist[i + 1].op \in TerminalEvents
    /\ hist[i + 1].tag = hist[i].tag

\* C4: from a Steady tag, a successful SetAnimated followed by one end or cancel
\* event for the tag leaves transitions as it was before the SetAnimated call
\* and the tag out of singleTransition.
C4_OverrideRoundTrip ==
    \A i \in HistIdx :
        RoundTripAt(i) =>
            /\ hist[i + 1].post.transitions = hist[i].pre.transitions
            /\ ~Has(hist[i + 1].post.singleTransition, hist[i].tag)

\* a round trip that restored a transition the tag had before the override
C4_Witness ==
    \E i \in HistIdx :
        /\ RoundTripAt(i)
        /\ Has(hist[i].pre.transitions, hist[i].tag)
        /\ hist[i].pre.transitions[hist[i].tag] \in SteadyAnimations

\* C5: SetAnimated(tag, value, A) with a non-nil A and a rejected value returns
\* false and leaves transitions and singleTransition as they were before the call.
C5_RejectedOverrideRolledBack ==
    \A i \in HistIdx :
        LET e == hist[i]
        IN  (IsOverride(e) /\ ~Accepted(e.tag, e.value)) =>
                /\ ~e.ok
                /\ e.post.transitions = e.pre.transitions
                /\ e.post.singleTransition = e.pre.singleTransition

\* the two animated sets of C6 at positions i, i+1 of the history
InterruptionAt(i) ==
    /\ i + 1 \in HistIdx
    /\ IsOverride(hist[i]) /\ hist[i].ok
    /\ ~Has(hist[i].pre.transitions, hist[i].tag)
    /\ IsOverride(hist[i + 1]) /\ hist[i + 1].ok
    /\ hist[i + 1].tag = hist[i].tag

\* C6: for a tag with no transition, after two successful animated sets A1, A2
\* with no terminal event in between, transitions[tag] = A2 and
\* singleTransition[tag] = A1 (what transitions[tag] held before the second
\* call); one end event then removes the tag from singleTransition and sets
\* transitions[tag] to A1, and a further terminal event changes neither map.
C6_Interruption ==
    \A i \in HistIdx :
        InterruptionAt(i) =>
            LET tag == hist[i].tag
                a1 == hist[i].animation
                a2 == hist[i + 1].animation
                second == hist[i + 1].post
            IN  /\ TransitionOf(second, tag) = a2
                /\ Has(second.singleTransition, tag)
                /\ second.singleTransition[tag] = a1
                /\ second.singleTransition[tag] = TransitionOf(hist[i + 1].pre, tag)
                /\ (i + 2 \in HistIdx /\ hist[i + 2].op = TransitionEndEvent
                        /\ hist[i + 2].tag = tag) =>
                      LET ended == hist[i + 2].post
                      IN  /\ ~Has(ended.singleTransition, tag)
                          /\ TransitionOf(ended, tag) = a1
                          /\ \A kind \in TerminalEvents :
                                LET w == handleTransitionEvents(Begin(ended), kind,
                                                                EventData(tag))
                                IN  /\ w.transitions = ended.transitions
                                    /\ w.singleTransition = ended.singleTransition
                          /\ (i + 3 \in HistIdx /\ hist[i + 3].op \in TerminalEvents
                                  /\ hist[i + 3].tag = tag) =>
                                /\ hist[i + 3].post.transitions = ended.transitions
                                /\ hist[i + 3].post.singleTransition
                                       = ended.singleTransition

\* the whole scenario has run: two animated sets with different animations,
\* then the end event
C6_Witness ==
    \E i \in HistIdx :
        /\ InterruptionAt(i)
        /\ hist[i].animation # hist[i + 1].animation
        /\ i + 2 \in HistIdx
        /\ hist[i + 2].op = TransitionEndEvent
        /\ hist[i + 2].tag = hist[i].tag

\* C7: a run or start event changes neither transitions nor singleTransition
\* (nor anything else of the view); it only calls the listeners registered for
\* that kind of event, each once and in order.
C7_RunStartFrame ==
    \A i \in HistIdx :
        LET e == hist[i]
        IN  e.op \in {TransitionRunEvent, TransitionStartEvent} =>
                LET ls == getAnimationListeners(e.pre, e.op)
                IN  /\ e.post.transitions = e.pre.transitions
                    /\ e.post.singleTransition = e.pre.singleTransition
                    /\ [e.post EXCEPT !.calls = <<>>, !.seen = <<>>] = Begin(e.pre)
                    /\ Len(e.post.calls) = Len(ls)
                    /\ \A j \in 1..Len(ls) : e.post.calls[j].fn = ls[j].id

\* a run event arrived for a tag that was Overriding and its listener was called
C7_Witness ==
    \E i \in HistIdx :
        /\ hist[i].op = TransitionRunEvent
        /\ Has(hist[i].pre.singleTransition, hist[i].tag)
        /\ Len(hist[i].post.calls) = 1

\* C8: SetAnimated with a tag in any letter case records its entries under the
\* canonical (lower-case) key that Set uses, so that a terminal event carrying
\* the canonical tag returns the tag to Steady.
C8_AnimatedSetCanonicalKey ==
    \A i \in HistIdx :
        LET e == hist[i]
        IN  (IsOverride(e) /\ e.ok) =>
                /\ Has(e.post.transitions, ToLower(e.tag))
                /\ Has(e.post.singleTransition, ToLower(e.tag))
                /\ \A kind \in TerminalEvents :
                      LET w == handleTransitionEvents(Begin(e.post), kind,
                                                      EventData(ToLower(e.tag)))
                      IN  \A k \in DOMAIN w.singleTransition :
                              ToLower(k) # ToLower(e.tag)

\* C23: a Set, or a SetAnimated with an animation, that returns false has sent
\* no instruction to the client during the call.
C23_RejectedSendsNothing ==
    \A i \in HistIdx :
        (hist[i].op \in {"Set", "SetAnimated"} /\ ~hist[i].ok) => hist[i].post.out = <<>>

\* C24: on a view that has not been rendered (created is false) no Set, Remove
\* or SetAnimated sends an instruction to the client.
C24_NotRenderedSendsNothing ==
    \A i \in HistIdx :
        (hist[i].op \in {"Set", "Remove", "SetAnimated"} /\ ~hist[i].pre.created)
            => hist[i].post.out = <<>>

-----------------------------------------------------------------------------
(* The property store as a state machine: specification SpecStore *)

ListTags == {Items, DisabledItems, DropDownEvent, Current}
ListenerTags == {TransitionEndEvent}
StoreTags == {ID, Style, StyleDisabled, Opacity} \cup ListenerTags \cup ListTags

\* the spellings the operations are called with
StoreSpellings == StoreTags \cup {"Id"}

\* the values that the coercion of a tag rejects
RejectedValues(tag) ==
    CASE tag = ID -> {IntVal(1)}
      [] tag \in {Style, StyleDisabled} -> {Bool(TRUE)}
      [] tag \in ListenerTags ->
            {FuncList("v", <<2, 0>>), AnyList(<<Func("0", 2), Nil>>)}
      [] tag = Items -> {AnyList(<<Str("a"), Nil>>), IntVal(1)}
      [] tag = DisabledItems ->
            {AnyList(<<IntVal(0), Str("x")>>), Str("1,,2")}
      [] tag = DropDownEvent ->
            {FuncList("i", <<6, 0>>), AnyList(<<Func("i", 6), Str("x")>>)}
      [] tag = Current -> {Str("abc")}
      [] tag = Opacity -> {Str("abc")}
      [] OTHER -> {}

\* the other values the operations are called with
OtherValues(tag) ==
    CASE tag = ID -> {Str("v1")}
      [] tag \in {Style, StyleDisabled} -> {Str("s1")}
      [] tag \in ListenerTags ->
            {Func("vs", 1), AnyList(<<Func("0", 2), Func("s", 3)>>)}
      [] tag = Items ->
            {StrList(<<"a", "b">>), AnyList(<<Str("a"), IntVal(1)>>)}
      [] tag = DisabledItems ->
            {IntList(<<1>>), Str("0,1"), DataList(<<[obj |-> FALSE, s |-> "1"]>>)}
      [] tag = DropDownEvent -> {Func("li", 5), AnyList(<<Func("i", 6)>>)}
      [] tag = Current -> {IntVal(1), Str("2")}
      [] tag = Opacity -> {Float(5)}
      [] OTHER -> {}

StoreValues(tag) == RejectedValues(tag) \cup OtherValues(tag) \cup {Nil}

\* the tags of the drop-down list are given to a drop-down list, the style tags
\* to a plain view; the other tags to both
Handles(v, spelling) ==
    /\ ToLower(spelling) \in ListTags => v.kind = "DropDownList"
    /\ ToLower(spelling) \in {Style, StyleDisabled} => v.kind = "View"

\* the one change listener of the model
TheChangeListener == 9

\* SetChangeListener(tag, TheChangeListener) for every tag of the sequence
RECURSIVE Watch(_, _)
Watch(v, tags) ==
    IF tags = <<>>
    THEN v
    ELSE Watch(SetChangeListener(v, Head(tags), TheChangeListener), Tail(tags))

WatchedTags(kind) ==
    IF kind = "DropDownList"
    THEN <<ID, Opacity, TransitionEndEvent, Items, DisabledItems, DropDownEvent, Current>>
    ELSE <<ID, Style, StyleDisabled, Opacity, TransitionEndEvent>>

\* A view or a drop-down list after construction, with or without a change
\* listener on its tags, before or after it has been rendered.
\* No slice of reduced-arity listeners is accepted under this specification, so
\* the scope of the range variable has no effect; it is fixed here.
InitStore ==
    /\ \E kind \in {"View", "DropDownList"}, watched \in BOOLEAN, rendered \in BOOLEAN :
          LET v0 == NewViewData(kind)
              v1 == IF watched THEN Watch(v0, WatchedTags(kind)) ELSE v0
          IN  view = Begin(IF rendered THEN htmlProperties(v1) ELSE v1)
    /\ loopVarShared = FALSE
    /\ hist = <<>>
    /\ outstanding = {}
    /\ animations = <<>>
    /\ sessions = <<>>

StoreSet ==
    \E spelling \in StoreSpellings :
        \E value \in StoreValues(ToLower(spelling)) :
            LET r == Set(Begin(view), spelling, value)
            IN  /\ Len(hist) < MaxStoreOps
                /\ Handles(view, spelling)
                /\ view' = r.v
                /\ hist' = Append(hist, Entry("Set", spelling, value, NilAnimation,
                                              r.ok, view, r.v))
                /\ UNCHANGED <<loopVarShared, outstanding, animations, sessions>>

StoreRemove ==
    \E spelling \in StoreSpellings :
        LET w == Remove(Begin(view), spelling)
        IN  /\ Len(hist) < MaxStoreOps
            /\ Handles(view, spelling)
            /\ view' = w
            /\ hist' = Append(hist, Entry("Remove", spelling, Nil, NilAnimation,
                                          TRUE, view, w))
            /\ UNCHANGED <<loopVarShared, outstanding, animations, sessions>>

StoreSetChangeListener ==
    \E tag \in StoreTags, listener \in {0, TheChangeListener} :
        LET w == SetChangeListener(Begin(view), tag, listener)
        IN  /\ Len(hist) < MaxStoreOps
            /\ Handles(view, tag)
            /\ listener = 0 => Has(view.changeListener, tag)
            /\ view' = w
            /\ hist' = Append(hist, Entry("SetChangeListener", tag, Nil, NilAnimation,
                                          TRUE, view, w))
            /\ UNCHANGED <<loopVarShared, outstanding, animations, sessions>>

StoreCreate ==
    /\ ~view.created
    /\ Len(hist) < MaxStoreOps
    /\ view' = htmlProperties(Begin(view))
    /\ hist' = Append(hist, Entry("Create", "", Nil, NilAnimation, TRUE,
                                  view, htmlProperties(Begin(view))))
    /\ UNCHANGED <<loopVarShared, outstanding, animations, sessions>>

NextStore ==
    \/ StoreSet
    \/ StoreRemove
    \/ StoreSetChangeListener
    \/ StoreCreate

SpecStore == InitStore /\ [][NextStore]_vars

-----------------------------------------------------------------------------
(* Properties of the property store, checked under SpecStore *)

\* C1: for a value that the coercion of the tag rejects, Set returns false and
\* Get of the tag is afterwards what it was before; and whenever Set returns
\* false, Get of the tag is what it was before.
C1_RejectedSetKeepsValue ==
    \A i \in HistIdx :
        LET e == hist[i]
        IN  e.op = "Set" =>
                /\ e.value \in RejectedValues(ToLower(e.tag)) => ~e.ok
                /\ ~e.ok => Get(e.post, e.tag) = Get(e.pre, e.tag)

\* a rejected Set of a tag that held a value
C1_Witness ==
    \E i \in HistIdx :
        /\ hist[i].op = "Set"
        /\ hist[i].value \in RejectedValues(ToLower(hist[i].tag))
        /\ ~hist[i].ok
        /\ Get(hist[i].pre, hist[i].tag) # Get(NewViewData(hist[i].pre.kind), hist[i].tag)

\* C9: Set(T, nil) is Remove(T): from the same state both leave the same store,
\* send the same instructions and call the same listeners, and Set returns true.
C9_SetNilIsRemove ==
    \A i \in HistIdx :
        LET e == hist[i]
        IN  /\ (e.op = "Set" /\ e.value = Nil) =>
                    e.ok /\ e.post = Remove(Begin(e.pre), e.tag)
            /\ e.op = "Remove" =>
                    Set(Begin(e.pre), e.tag, Nil) = [v |-> e.post, ok |-> TRUE]

\* Set(T, nil) removed a value, sent an instruction and called the listener
C9_Witness ==
    \E i \in HistIdx :
        /\ hist[i].op = "Set" /\ hist[i].value = Nil
        /\ Get(hist[i].pre, hist[i].tag) # Get(hist[i].post, hist[i].tag)
        /\ hist[i].post.calls # <<>>
        /\ hist[i].post.out # <<>>

\* the tag holds no value
NotSet(v, tag) == Get(v, tag) = Get(NewViewData(v.kind), tag)

\* the fields of the view that hold the properties
Store(v) == <<v.viewID, v.properties, v.items, v.disabledItems, v.dropDownListener,
              v.transitions>>

\* C10: Remove(T) of a tag that is not set leaves the store unchanged and still
\* calls the change listener registered for T.
C10_RemoveAbsentNotifies ==
    \A i \in HistIdx :
        LET e == hist[i]
            tag == ToLower(e.tag)
        IN  (e.op = "Remove" /\ NotSet(e.pre, tag) /\ Has(e.pre.changeListener, tag)) =>
                /\ Store(e.post) = Store(e.pre)
                /\ \E j \in 1..Len(e.post.calls) :
                      /\ e.post.calls[j].fn = e.pre.changeListener[tag]
                      /\ e.post.calls[j].args = <<"view", tag>>

\* the number of calls of the change listener of tag with (view, tag) among calls
RECURSIVE Notified(_, _, _)
Notified(calls, listener, tag) ==
    IF calls = <<>>
    THEN 0
    ELSE (IF Head(calls) = [fn |-> listener, args |-> <<"view", tag>>] THEN 1 ELSE 0)
             + Notified(Tail(calls), listener, tag)

\* C22: a successful Set(T, V) with V not nil calls the change listener
\* registered for T exactly once with the tag T, on a view and on a drop-down
\* list alike, and a failed Set calls no listener.
C22_SetNotifiesLiteralListener ==
    \A i \in HistIdx :
        LET e == hist[i]
            tag == ToLower(e.tag)
        IN  (e.op = "Set" /\ e.value # Nil) =>
                /\ (e.ok /\ Has(e.pre.changeListener, tag))
                       => Notified(e.post.calls, e.pre.changeListener[tag], tag) = 1
                /\ ~e.ok => e.post.calls = <<>>

-----------------------------------------------------------------------------
(* The listener tags as a state machine: specification SpecListeners *)

EventTags == TransitionEventTags \cup AnimationEventTags

\* a function value that is nil
NilFunc(shape) == Func(shape, 0)

\* single callbacks, homogeneous lists and heterogeneous lists without a nil element
CleanListenerInputs ==
    {Func(shape, 1) : shape \in ListenerShapes}
    \cup {FuncList(shape, <<2, 3>>) : shape \in ListenerShapes}
    \cup {AnyList(<<Func("0", 2), Func("vs", 3), Func("s", 4)>>),
          AnyList(<<Func("v", 2), Func("v", 3)>>)}

\* lists with a nil element: a nil function in a typed list, a nil interface or
\* a nil function in a []interface{}
NilListenerInputs ==
    {FuncList(shape, <<2, 0>>) : shape \in ListenerShapes}
    \cup {FuncList("s", <<0, 2>>),
          AnyList(<<Func("0", 2), Nil>>),
          AnyList(<<Nil, Func("vs", 3)>>),
          AnyList(<<Func("s", 3), NilFunc("v")>>)}

\* nil and the empty lists
EmptyListenerInputs ==
    {Nil, AnyList(<<>>)} \cup {FuncList(shape, <<>>) : shape \in ListenerShapes}

\* values that are no listeners
InvalidListenerInputs ==
    {Str("x"), Func("li", 5), AnyList(<<Func("0", 2), Str("x")>>)}

ListenerInputs ==
    CleanListenerInputs \cup NilListenerInputs \cup EmptyListenerInputs
        \cup InvalidListenerInputs

\* NewView(session, params) with params that give every event tag two listeners
RECURSIVE SetAll(_, _, _)
SetAll(v, tags, value) ==
    IF tags = <<>>
    THEN v
    ELSE SetAll(viewDataSet(v, Head(tags), value).v, Tail(tags), value)

ListeningView ==
    Begin(SetAll(NewViewData("View"),
                 <<TransitionRunEvent, TransitionStartEvent, TransitionEndEvent,
                   TransitionCancelEvent, AnimationStartEvent, AnimationEndEvent,
                   AnimationCancelEvent, AnimationIterationEvent>>,
                 AnyList(<<Func("vs", 7), Func("s", 8)>>)))

\* the scope of the range variable depends on the language version of the build
InitListeners ==
    /\ view \in {NewViewData("View"), ListeningView}
    /\ loopVarShared \in BOOLEAN
    /\ hist = <<>>
    /\ outstanding = {}
    /\ animations = <<>>
    /\ sessions = <<>>

ListenerSet ==
    \E tag \in EventTags, value \in ListenerInputs :
        LET r == Set(Begin(view), tag, value)
        IN  /\ Len(hist) < MaxListenerOps
            /\ view' = r.v
            /\ hist' = Append(hist, Entry("Set", tag, value, NilAnimation,
                                          r.ok, view, r.v))
            /\ UNCHANGED <<loopVarShared, outstanding, animations, sessions>>

ListenerRemove ==
    \E tag \in EventTags :
        LET w == Remove(Begin(view), tag)
        IN  /\ Len(hist) < MaxListenerOps
            /\ view' = w
            /\ hist' = Append(hist, Entry("Remove", tag, Nil, NilAnimation,
                                          TRUE, view, w))
            /\ UNCHANGED <<loopVarShared, outstanding, animations, sessions>>

\* handleCommand with the command of a transition or animation event; the view
\* has no animation under this specification
ListenerEvent ==
    \E tag \in EventTags :
        LET w == IF tag \in TransitionEventTags
                 THEN handleTransitionEvents(Begin(view), tag, EventData(Opacity))
                 ELSE handleAnimationEvents(Begin(view), tag,
                                            MapPut(EmptyMap, "name", "kf000001"), <<>>)
        IN  /\ Len(hist) < MaxListenerOps
            /\ view' = w
            /\ hist' = Append(hist, Entry(tag, "", Nil, NilAnimation, TRUE, view, w))
            /\ UNCHANGED <<loopVarShared, outstanding, animations, sessions>>

NextListeners ==
    \/ ListenerSet
    \/ ListenerRemove
    \/ ListenerEvent

SpecListeners == InitListeners /\ [][NextListeners]_vars

-----------------------------------------------------------------------------
(* Properties of listener normalisation, checked under SpecListeners *)

\* the callbacks of an input, in order: their shape and identity
Originals(value) ==
    CASE value.t = "func" -> <<[shape |-> value.shape, id |-> value.id]>>
      [] value.t = "funclist" ->
            [i \in 1..Len(value.ids) |-> [shape |-> value.shape, id |-> value.ids[i]]]
      [] value.t = "anylist" ->
            [i \in 1..Len(value.elems) |->
                [shape |-> value.elems[i].shape, id |-> value.elems[i].id]]
      [] OTHER -> <<>>

\* the call that a callback of the shape receives for a canonical call (view, payload)
ProjectedCall(o, payload) ==
    [fn |-> o.id,
     args |-> CASE o.shape = "vs" -> <<"view", payload>>
                [] o.shape = "s" -> <<payload>>
                [] o.shape = "v" -> <<"view">>
                [] OTHER -> <<>>]

\* C11: an accepted listener input without a nil element is stored as a
\* canonical list of the same length and order, and calling its i-th entry
\* calls the i-th callback of the input with the projected arguments.
C11_NormalizedListenersCallOriginals ==
    \A i \in HistIdx :
        LET e == hist[i]
            orig == Originals(e.value)
            ls == getAnimationListeners(e.post, e.tag)
        IN  (e.op = "Set" /\ e.value \in CleanListenerInputs) =>
                /\ e.ok
                /\ Len(ls) = Len(orig)
                /\ \A k \in 1..Len(orig) :
                      Invoke(Begin(e.post), ls[k], "p").calls
                          = <<ProjectedCall(orig[k], "p")>>

\* C12: setting a list with a nil element on an event tag returns false and
\* leaves the listener list of the tag as it was.
C12_NilElementRejected ==
    \A i \in HistIdx :
        LET e == hist[i]
        IN  (e.op = "Set" /\ e.value \in NilListenerInputs) =>
                /\ ~e.ok
                /\ getListenerSlice(e.post, "", e.tag) = getListenerSlice(e.pre, "", e.tag)

\* C13: nil and the empty lists are accepted as "no listeners", and the getter
\* of every event tag returns a list, never nil: the empty list when nothing is
\* registered, when the listeners were removed and when the view is missing.
C13_GettersReturnLists ==
    /\ \A tag \in EventTags :
          /\ ~getListenerSlice(view, "", tag).isNil
          /\ ~Has(view.properties, tag) => getListenerSlice(view, "", tag).ls = <<>>
          /\ getListenerSlice(view, "missing", tag) = [ls |-> <<>>, isNil |-> FALSE]
    /\ \A i \in HistIdx :
          LET e == hist[i]
          IN  /\ (e.op = "Set" /\ e.value \in EmptyListenerInputs) =>
                    e.ok /\ getListenerSlice(e.post, "", e.tag) = [ls |-> <<>>, isNil |-> FALSE]
              /\ e.op = "Remove" =>
                    getListenerSlice(e.post, "", e.tag) = [ls |-> <<>>, isNil |-> FALSE]

\* listeners were registered and an empty list removed them
C13_Witness ==
    \E i \in HistIdx :
        /\ hist[i].op = "Set"
        /\ hist[i].value \in EmptyListenerInputs \ {Nil}
        /\ getListenerSlice(hist[i].pre, "", hist[i].tag).ls # <<>>
        /\ getListenerSlice(view, "", hist[i].tag).ls = <<>>

-----------------------------------------------------------------------------
(* Animation objects (animationData) *)

PropertyTag == "property"
Duration == "duration"
Delay == "delay"
TimingFunction == "timing-function"
IterationCount == "iteration-count"
AnimationDirection == "animation-direction"
Direction == "direction"

\* a map[int]interface{}: nil, or the map m
NilFrames == [isNil |-> TRUE, m |-> EmptyMap]
Frames(m) == [isNil |-> FALSE, m |-> m]

\* the struct AnimatedProperty and the slice []AnimatedProperty
AnimatedProperty(tag, from, to, keyFrames) ==
    [t |-> "animatedproperty", Tag |-> tag, From |-> from, To |-> to,
     KeyFrames |-> keyFrames]
AnimatedProperties(props) == [t |-> "animatedproperties", props |-> props]

\* a DataNode: a text node, an object node (its property nodes: tag, text and
\* whether the node is a text node) or an array node (its elements: whether the
\* element is an object, and its property nodes)
TextNode(text) == [t |-> "node", type |-> "text", text |-> text]
ObjectNode(nodes) == [t |-> "node", type |-> "object", nodes |-> nodes]
ArrayNode(elems) == [t |-> "node", type |-> "array", elems |-> elems]
Node(tag, text) == [tag |-> tag, text |-> text, isText |-> TRUE]

\* animation.init(): no property, no keyframe name
NewAnimationData == [properties |-> EmptyMap, keyFramesName |-> "", log |-> <<>>]

ErrorLog(a, msg) == [a EXCEPT !.log = Append(@, [msg |-> msg])]

\* strings.ToLower and the alias of animation-direction
normalizeTag(tag) ==
    LET lower == ToLower(tag)
    IN  IF lower = Direction THEN AnimationDirection ELSE lower

\* strings.Trim(text, " \t\n\r") on the ids the model uses
TrimSpace(text) ==
    CASE text = " a1 " -> "a1"
      [] text = "  " -> ""
      [] OTHER -> text

\* the promotion of the keyframes 0 and 100 of Animation.Set
promoteFrom_keep(prop) ==
    IF prop.From.t = "nil" /\ ~prop.KeyFrames.isNil /\ Has(prop.KeyFrames.m, 0)
    THEN [prop EXCEPT !.From = prop.KeyFrames.m[0]]
    ELSE prop

promoteFrom(prop) ==
    IF prop.From.t = "nil" /\ ~prop.KeyFrames.isNil /\ Has(prop.KeyFrames.m, 0)
    THEN [prop EXCEPT !.From = prop.KeyFrames.m[0],
                      !.KeyFrames = Frames(MapDel(prop.KeyFrames.m, 0))]
    ELSE prop

promoteTo(prop) ==
    IF prop.To.t = "nil" /\ ~prop.KeyFrames.isNil /\ Has(prop.KeyFrames.m, 100)
    THEN [prop EXCEPT !.To = prop.KeyFrames.m[100],
                      !.KeyFrames = Frames(MapDel(prop.KeyFrames.m, 100))]
    ELSE prop

promote(prop) == promoteTo(promoteFrom(prop))

\* the loop over a []AnimatedProperty: the valid entries are appended to props
RECURSIVE validProperties_first(_, _, _)
validProperties_first(a, list, props) ==
    IF list = <<>>
    THEN [a |-> a, props |-> props]
    ELSE LET val == promote(Head(list))
         IN  IF val.From.t = "nil"
             THEN validProperties_first(ErrorLog(a, "AnimatedProperty.From is nil"),
                                        Tail(list), props)
             ELSE IF val.To.t = "nil"
             THEN validProperties_first(ErrorLog(a, "AnimatedProperty.To is nil"),
                                        Tail(list), props)
             ELSE [a |-> a, props |-> Append(props, val)]

RECURSIVE validProperties(_, _, _)
validProperties(a, list, props) ==
    IF list = <<>>
    THEN [a |-> a, props |-> props]
    ELSE LET val == promote(Head(list))
         IN  IF val.From.t = "nil"
             THEN validProperties(ErrorLog(a, "AnimatedProperty.From is nil"),
                                  Tail(list), props)
             ELSE IF val.To.t = "nil"
             THEN validProperties(ErrorLog(a, "AnimatedProperty.To is nil"),
                                  Tail(list), props)
             ELSE validProperties(a, Tail(list), Append(props, val))

\* strconv.Atoi of the tag of a keyframe node without its trailing '%'
FrameNumber(propTag) ==
    CASE propTag \in {"50", "50%"} -> [ok |-> TRUE, n |-> 50]
      [] propTag \in {"25", "25%"} -> [ok |-> TRUE, n |-> 25]
      [] propTag \in {"150", "150%"} -> [ok |-> TRUE, n |-> 150]
      [] propTag \in {"-5", "-5%"} -> [ok |-> TRUE, n |-> 0 - 5]
      [] OTHER -> [ok |-> FALSE, n |-> 0]

\* parseObject: the AnimatedProperty of an object node; its Tag stays empty
RECURSIVE parseObject(_, _, _)
parseObject(a, nodes, result) ==
    IF nodes = <<>>
    THEN [a |-> a, prop |-> result,
          ok |-> result.From.t # "nil" /\ result.To.t # "nil"]
    ELSE
      LET node == Head(nodes)
          propTag == ToLower(node.tag)
          f == FrameNumber(propTag)
      IN  IF ~node.isText
          THEN parseObject(a, Tail(nodes), result)
          ELSE IF propTag \in {"from", "0", "0%"}
          THEN parseObject(a, Tail(nodes), [result EXCEPT !.From = Str(node.text)])
          ELSE IF propTag \in {"to", "100", "100%"}
          THEN parseObject(a, Tail(nodes), [result EXCEPT !.To = Str(node.text)])
          ELSE IF ~f.ok
          THEN parseObject(ErrorLog(a, "strconv.Atoi"), Tail(nodes), result)
          ELSE IF f.n < 0 \/ f.n > 100
          THEN parseObject(ErrorLog(a, "key-frame is out of range"), Tail(nodes), result)
          ELSE parseObject(a, Tail(nodes),
                           [result EXCEPT !.KeyFrames =
                               Frames(MapPut(result.KeyFrames.m, f.n, Str(node.text)))])

\* the loop over the elements of an array node
RECURSIVE parseArray(_, _, _)
parseArray(a, elems, props) ==
    IF elems = <<>>
    THEN [a |-> a, props |-> props]
    ELSE LET val == Head(elems)
             r == parseObject(a, val.nodes, AnimatedProperty("", Nil, Nil, NilFrames))
         IN  IF ~val.isObject
             THEN parseArray(notCompatibleType(a, PropertyTag, val), Tail(elems), props)
             ELSE parseArray(r.a, Tail(elems),
                             IF r.ok THEN Append(props, r.prop) ELSE props)

\* stands for math.MaxFloat64, in tenths: above every number of the model
MaxFloat64 == 1000000

\* propertyList.setFloatProperty: a number, or a numeric string, within [min, max]
setFloatProperty(a, tag, value, min, max) ==
    LET n == CASE value.t = "float" -> value.n
               [] value.t = "int" -> value.n * 10
               [] value.t = "string" /\ value.s \in DOMAIN NumericStrings ->
                     NumericStrings[value.s]
               [] OTHER -> 0
        isNumber == \/ value.t \in {"float", "int"}
                    \/ value.t = "string" /\ value.s \in DOMAIN NumericStrings
    IN  IF isNumber /\ n >= min /\ n <= max
        THEN [v |-> [a EXCEPT !.properties = MapPut(@, tag, Float(n))], ok |-> TRUE]
        ELSE [v |-> notCompatibleType(a, tag, value), ok |-> FALSE]

\* the names of the values of animation-direction, enumProperties
DirectionNames == <<"normal", "reverse", "alternate", "alternate-reverse">>

\* propertyList.setEnumProperty: the number of a value, or its name
setEnumProperty(a, tag, value, names) ==
    CASE value.t = "int" /\ value.n >= 0 /\ value.n < Len(names) ->
            [v |-> [a EXCEPT !.properties = MapPut(@, tag, value)], ok |-> TRUE]
      [] value.t = "string" /\ \E i \in 1..Len(names) : names[i] = value.s ->
            [v |-> [a EXCEPT !.properties =
                        MapPut(@, tag, IntVal((CHOOSE i \in 1..Len(names) :
                                                  names[i] = value.s) - 1))],
             ok |-> TRUE]
      [] OTHER -> [v |-> notCompatibleType(a, tag, value), ok |-> FALSE]

\* animationData.Remove and animationData.Get
animationRemove(a, tag) == [a EXCEPT !.properties = MapDel(@, normalizeTag(tag))]
animationGet(a, tag) ==
    IF Has(a.properties, normalizeTag(tag)) THEN a.properties[normalizeTag(tag)] ELSE Nil

\* the case PropertyTag of animationData.Set
setAnimatedProperty(a, tag, value) ==
    CASE value.t = "animatedproperty" ->
            LET val == promote(value)
            IN  IF val.From.t = "nil"
                THEN [v |-> ErrorLog(a, "AnimatedProperty.From is nil"), ok |-> FALSE]
                ELSE IF val.To.t = "nil"
                THEN [v |-> ErrorLog(a, "AnimatedProperty.To is nil"), ok |-> FALSE]
                ELSE [v |-> [a EXCEPT !.properties =
                                 MapPut(@, tag, AnimatedProperties(<<val>>))],
                      ok |-> TRUE]
      [] value.t = "animatedproperties" ->
            LET r == validProperties(a, value.props, <<>>)
            IN  IF Len(r.props) > 0
                THEN [v |-> [r.a EXCEPT !.properties =
                                 MapPut(@, tag, AnimatedProperties(r.props))],
                      ok |-> TRUE]
                ELSE [v |-> ErrorLog(r.a, "[]AnimatedProperty is empty"), ok |-> FALSE]
      [] value.t = "node" /\ value.type = "object" ->
            LET r == parseObject(a, value.nodes, AnimatedProperty("", Nil, Nil, NilFrames))
            IN  IF r.ok
                THEN [v |-> [r.a EXCEPT !.properties =
                                 MapPut(@, tag, AnimatedProperties(<<r.prop>>))],
                      ok |-> TRUE]
                ELSE [v |-> r.a, ok |-> FALSE]
      [] value.t = "node" /\ value.type = "array" ->
            LET r == parseArray(a, value.elems, <<>>)
            IN  IF Len(r.props) > 0
                THEN [v |-> [r.a EXCEPT !.properties =
                                 MapPut(@, tag, AnimatedProperties(r.props))],
                      ok |-> TRUE]
                ELSE [v |-> r.a, ok |-> FALSE]
      [] OTHER -> [v |-> notCompatibleType(a, tag, value), ok |-> FALSE]

\* animationData.Set
animationSet(a, tag0, value) ==
    IF value.t = "nil"
    THEN [v |-> animationRemove(a, tag0), ok |-> TRUE]
    ELSE
      LET tag == normalizeTag(tag0)
      IN  CASE tag = ID ->
                  IF value.t = "string"
                  THEN [v |-> IF TrimSpace(value.s) = ""
                              THEN [a EXCEPT !.properties = MapDel(@, tag)]
                              ELSE [a EXCEPT !.properties =
                                        MapPut(@, tag, Str(TrimSpace(value.s)))],
                        ok |-> TRUE]
                  ELSE [v |-> notCompatibleType(a, tag, value), ok |-> FALSE]
            [] tag = PropertyTag -> setAnimatedProperty(a, tag, value)
            [] tag = Duration -> setFloatProperty(a, tag, value, 0, MaxFloat64)
            [] tag = Delay -> setFloatProperty(a, tag, value, 0 - MaxFloat64, MaxFloat64)
            [] tag = TimingFunction ->
                  IF value.t = "string"
                  THEN [v |-> [a EXCEPT !.properties = MapPut(@, tag, value)], ok |-> TRUE]
                  ELSE [v |-> a, ok |-> FALSE]
            [] tag = IterationCount -> setIntProperty(a, tag, value)
            [] tag = AnimationDirection ->
                  setEnumProperty(a, AnimationDirection, value, DirectionNames)
            [] OTHER ->
                  [v |-> ErrorLog(a, "The property is not supported by Animation"),
                   ok |-> FALSE]

\* NewAnimation(params): Set for every entry of params; params is the sequence
\* of its <<tag, value>> entries
RECURSIVE NewAnimation(_, _)
NewAnimation(a, params) ==
    IF params = <<>>
    THEN a
    ELSE NewAnimation(animationSet(a, Head(params)[1], Head(params)[2]).v, Tail(params))

-----------------------------------------------------------------------------
(* Timing functions, validateTimingFunction and timingFunctionCSS *)

EaseTiming == "ease"
EaseInTiming == "ease-in"
EaseOutTiming == "ease-out"
EaseInOutTiming == "ease-in-out"
LinearTiming == "linear"

\* the characters of the timing-function strings the model uses
Chars(s) ==
    CASE s = "" -> <<>>
      [] s = "ease" -> <<"e", "a", "s", "e">>
      [] s = "ease-in" -> <<"e", "a", "s", "e", "-", "i", "n">>
      [] s = "ease-out" -> <<"e", "a", "s", "e", "-", "o", "u", "t">>
      [] s = "ease-in-out" -> <<"e", "a", "s", "e", "-", "i", "n", "-", "o", "u", "t">>
      [] s = "linear" -> <<"l", "i", "n", "e", "a", "r">>
      [] s = "bounce" -> <<"b", "o", "u", "n", "c", "e">>
      [] s = "steps(4)" -> <<"s", "t", "e", "p", "s", "(", "4", ")">>
      [] s = "steps(a)" -> <<"s", "t", "e", "p", "s", "(", "a", ")">>
      [] s = "steps()" -> <<"s", "t", "e", "p", "s", "(", ")">>
      [] s = "(4)" -> <<"(", "4", ")">>
      [] s = "steps(4" -> <<"s", "t", "e", "p", "s", "(", "4">>
      [] s = "cubic-bezier(0.1,0.7,1,0.1)" -> <<"c", "u", "b", "i", "c", "-", "b", "e", "z", "i", "e", "r", "(", "0", ".", "1", ",", "0", ".", "7", ",", "1", ",", "0", ".", "1", ")">>
      [] s = "cubic-bezier(1,2,3)" -> <<"c", "u", "b", "i", "c", "-", "b", "e", "z", "i", "e", "r", "(", "1", ",", "2", ",", "3", ")">>
      [] s = "cubic-bezier(1,2,3,x)" -> <<"c", "u", "b", "i", "c", "-", "b", "e", "z", "i", "e", "r", "(", "1", ",", "2", ",", "3", ",", "x", ")">>
      [] s = "cubic-bezier(0.1, 0.7, 1, 0.1)" -> <<"c", "u", "b", "i", "c", "-", "b", "e", "z", "i", "e", "r", "(", "0", ".", "1", ",", " ", "0", ".", "7", ",", " ", "1", ",", " ", "0", ".", "1", ")">>
      [] OTHER -> <<s>>

Digits == {"0", "1", "2", "3", "4", "5", "6", "7", "8", "9"}

\* strings.IndexRune: the 0-based index of the first ch in cs, -1 when there is none
IndexRune(cs, ch) ==
    IF \E i \in 1..Len(cs) : cs[i] = ch
    THEN (CHOOSE i \in 1..Len(cs) : cs[i] = ch /\ \A j \in 1..(i - 1) : cs[j] # ch) - 1
    ELSE 0 - 1

\* strings.Trim(cs, " \t\n")
RECURSIVE TrimChars(_)
TrimChars(cs) ==
    IF cs = <<>>
    THEN cs
    ELSE IF Head(cs) \in {" ", "\t", "\n"}
    THEN TrimChars(Tail(cs))
    ELSE IF cs[Len(cs)] \in {" ", "\t", "\n"}
    THEN TrimChars(SubSeq(cs, 1, Len(cs) - 1))
    ELSE cs

\* strings.Split(cs, ","), part is the part being read
RECURSIVE SplitChars(_, _)
SplitChars(cs, part) ==
    IF cs = <<>>
    THEN <<part>>
    ELSE IF Head(cs) = ","
    THEN <<part>> \o SplitChars(Tail(cs), <<>>)
    ELSE SplitChars(Tail(cs), Append(part, Head(cs)))

AllDigits(cs) == cs # <<>> /\ \A i \in 1..Len(cs) : cs[i] \in Digits

Unsigned(cs) == IF cs # <<>> /\ Head(cs) \in {"+", "-"} THEN Tail(cs) ELSE cs

\* strconv.Atoi succeeds: an optional sign and decimal digits
AtoiOk(cs) == AllDigits(Unsigned(cs))

\* strconv.ParseFloat succeeds, for decimal numbers without exponent: an
\* optional sign, digits with at most one point and at least one digit
ParseFloatOk(cs) ==
    LET u == Unsigned(cs)
        point == IndexRune(u, ".")
        whole == IF point < 0 THEN u ELSE SubSeq(u, 1, point)
        frac == IF point < 0 THEN <<>> ELSE SubSeq(u, point + 2, Len(u))
    IN  /\ \A i \in 1..Len(whole) : whole[i] \in Digits
        /\ \A i \in 1..Len(frac) : frac[i] \in Digits
        /\ Len(whole) + Len(frac) > 0

\* a validation that takes steps(...) and cubic-bezier(...) with any arguments
validateTimingFunction_anyArgs(timingFunction) ==
    LET cs == Chars(timingFunction)
        size == Len(cs)
        index == IndexRune(cs, "(")
    IN  \/ timingFunction \in {"", EaseTiming, EaseInTiming, EaseOutTiming,
                               EaseInOutTiming, LinearTiming}
        \/ /\ size > 0 /\ cs[size] = ")" /\ index > 0
           /\ SubSeq(cs, 1, index) \in
                  {<<"s", "t", "e", "p", "s">>,
                   <<"c", "u", "b", "i", "c", "-", "b", "e", "z", "i", "e", "r">>}

validateTimingFunction(timingFunction) ==
    LET cs == Chars(timingFunction)
        size == Len(cs)
        index == IndexRune(cs, "(")
        args == SubSeq(cs, index + 2, size - 1)
        name == SubSeq(cs, 1, index)
        params == SplitChars(args, <<>>)
    IN  \/ timingFunction \in {"", EaseTiming, EaseInTiming, EaseOutTiming,
                               EaseInOutTiming, LinearTiming}
        \/ /\ size > 0 /\ cs[size] = ")" /\ index > 0
           /\ \/ name = <<"s", "t", "e", "p", "s">> /\ AtoiOk(TrimChars(args))
              \/ /\ name = <<"c", "u", "b", "i", "c", "-", "b", "e", "z", "i", "e", "r">>
                 /\ Len(params) = 4
                 /\ \A i \in 1..Len(params) : ParseFloatOk(TrimChars(params[i]))

-----------------------------------------------------------------------------
(* Keyframe registration and serialization (sessionData, animationData) *)

\* a session: its animation counter, the keyframes in its animationCSS and the
\* keyframes sent to the client by runScript
NewSession == [animationCounter |-> 0, animationCSS |-> <<>>, scripts |-> <<>>]

\* fmt.Sprintf("kf%06d", n)
KeyFramesName(n) ==
    CASE n = 1 -> "kf000001" [] n = 2 -> "kf000002" [] n = 3 -> "kf000003"
      [] n = 4 -> "kf000004" [] n = 5 -> "kf000005" [] n = 6 -> "kf000006"
      [] OTHER -> "kf00000n"

\* strconv.Itoa(frame) + "%"
FrameSelector(frame) ==
    CASE frame = 0 -> "0%" [] frame = 25 -> "25%" [] frame = 50 -> "50%"
      [] frame = 75 -> "75%" [] frame = 100 -> "100%" [] frame = 150 -> "150%"
      [] frame = 0 - 5 -> "-5%" [] OTHER -> "n%"

\* the loop "for i, n := range frames" of registerAnimation.  For frame < n the
\* code evaluates append(append(frames[:i], frame), frames[i+1:]...): the inner
\* append writes frame into the array of frames at index i, over n, and the
\* outer append copies the unchanged rest behind it.
\* an insertion that puts every new frame at the end
insertFrame_append(frames, frame, i) ==
    IF \E k \in 1..Len(frames) : frames[k] = frame THEN frames ELSE Append(frames, frame)

RECURSIVE insertFrame(_, _, _)
insertFrame(frames, frame, i) ==
    IF i > Len(frames)
    THEN Append(frames, frame)
    ELSE IF frames[i] = frame
    THEN frames
    ELSE IF frame < frames[i]
    THEN [frames EXCEPT ![i] = frame]
    ELSE insertFrame(frames, frame, i + 1)

\* the frames of one property, in the order the range over its map yields them
RECURSIVE insertFrames(_, _)
insertFrames(frames, order) ==
    IF order = <<>>
    THEN frames
    ELSE insertFrames(insertFrame(frames, Head(order), 1), Tail(order))

\* orders[k] is the order in which the range over props[k].KeyFrames yields its keys
RECURSIVE collectFrames(_, _, _)
collectFrames(props, orders, frames) ==
    IF props = <<>>
    THEN frames
    ELSE collectFrames(Tail(props), Tail(orders), insertFrames(frames, Head(orders)))

\* fromParams, toParams: the last value of each tag
RECURSIVE fromParamsOf(_, _)
fromParamsOf(props, params) ==
    IF props = <<>>
    THEN params
    ELSE fromParamsOf(Tail(props), MapPut(params, Head(props).Tag, Head(props).From))

RECURSIVE toParamsOf(_, _)
toParamsOf(props, params) ==
    IF props = <<>>
    THEN params
    ELSE toParamsOf(Tail(props), MapPut(params, Head(props).Tag, Head(props).To))

\* the params of the block of one frame
RECURSIVE frameParamsOf(_, _, _)
frameParamsOf(props, frame, params) ==
    IF props = <<>>
    THEN params
    ELSE LET prop == Head(props)
         IN  frameParamsOf(Tail(props), frame,
                           IF ~prop.KeyFrames.isNil /\ Has(prop.KeyFrames.m, frame)
                           THEN MapPut(params, prop.Tag, prop.KeyFrames.m[frame])
                           ELSE params)

\* the blocks of the frames, one for every frame with at least one value
RECURSIVE frameBlocks(_, _)
frameBlocks(props, frames) ==
    IF frames = <<>>
    THEN <<>>
    ELSE LET params == frameParamsOf(props, Head(frames), EmptyMap)
         IN  (IF DOMAIN params # {}
              THEN <<[selector |-> FrameSelector(Head(frames)), params |-> params]>>
              ELSE <<>>) \o frameBlocks(props, Tail(frames))

\* sessionData.registerAnimation: the session afterwards and the name
registerAnimation(session, props, orders) ==
    LET counter == session.animationCounter + 1
        name == KeyFramesName(counter)
        frames == collectFrames(props, orders, <<>>)
        style == [name |-> name,
                  blocks |-> <<[selector |-> "from", params |-> fromParamsOf(props, EmptyMap)]>>
                             \o frameBlocks(props, frames)
                             \o <<[selector |-> "to", params |-> toParamsOf(props, EmptyMap)]>>]
    IN  [session |-> [session EXCEPT !.animationCounter = counter,
                                     !.animationCSS = Append(@, style),
                                     !.scripts = Append(@, style)],
         name |-> name]

\* floatProperty, intProperty, enumProperty and stringProperty of an animation:
\* the stored value, or the default
floatProperty(a, tag, defaultValue) ==
    IF Has(a.properties, tag) /\ a.properties[tag].t = "float"
    THEN a.properties[tag].n
    ELSE defaultValue

intProperty(a, tag, defaultValue) ==
    IF Has(a.properties, tag) /\ a.properties[tag].t = "int"
    THEN a.properties[tag].n
    ELSE defaultValue

enumProperty(a, tag, defaultValue) == intProperty(a, tag, defaultValue)

stringProperty(a, tag) ==
    IF Has(a.properties, tag) /\ a.properties[tag].t = "string"
    THEN [s |-> a.properties[tag].s, ok |-> TRUE]
    ELSE [s |-> "", ok |-> FALSE]

\* a serialization that emits whatever string is stored
timingFunctionCSS_unchecked(a) ==
    IF stringProperty(a, TimingFunction).ok
    THEN stringProperty(a, TimingFunction).s
    ELSE "ease"

\* animationData.timingFunctionCSS; no constant is defined in the session
timingFunctionCSS(a) ==
    LET p == stringProperty(a, TimingFunction)
    IN  IF p.ok /\ validateTimingFunction(p.s) THEN p.s ELSE "ease"

\* fmt.Sprintf("%d", n) for the iteration counts of the model
FormatInt(n) == CASE n = 1 -> "1" [] n = 2 -> "2" [] n = 3 -> "3" [] OTHER -> "n"

\* the CSS of an animation is the sequence of the parts written to the buffer;
\* the empty sequence is the empty string
renderAnimation(a, session, orders, register) ==
    LET props == animationGet(a, PropertyTag)
        reg == registerAnimation(session, props.props, orders)
        a1 == IF register THEN [a EXCEPT !.keyFramesName = reg.name] ELSE a
        s1 == IF register THEN reg.session ELSE session
        duration == floatProperty(a1, Duration, 10)
        delay == floatProperty(a1, Delay, 0)
        iterationCount == intProperty(a1, IterationCount, 0)
        direction == enumProperty(a1, AnimationDirection, 0)
    IN  IF register /\ props.t = "nil"
        THEN [a |-> ErrorLog(a, "There are no animated properties."),
              session |-> session, css |-> <<>>]
        ELSE IF register /\ props.t # "animatedproperties"
        THEN [a |-> ErrorLog(a, "Invalid animated properties."),
              session |-> session, css |-> <<>>]
        ELSE [a |-> a1, session |-> s1,
              css |-> <<a1.keyFramesName,
                        IF duration > 0 THEN FormatFloat(duration) ELSE "1",
                        timingFunctionCSS(a1),
                        IF delay > 0 THEN FormatFloat(delay) ELSE "0",
                        IF iterationCount >= 0
                        THEN FormatInt(IF iterationCount = 0 THEN 1 ELSE iterationCount)
                        ELSE "infinite",
                        DirectionNames[(IF direction < 0 \/ direction >= Len(DirectionNames)
                                        THEN 0 ELSE direction) + 1],
                        "forwards">>]

\* a rendering that registers the keyframes on every call
animationCSS_always(a, session, orders) == renderAnimation(a, session, orders, TRUE)

\* animationData.animationCSS: the keyframes are registered when the animation
\* has no keyframe name yet
animationCSS(a, session, orders) ==
    renderAnimation(a, session, orders, a.keyFramesName = "")

\* animationData.transitionCSS: duration, timing function and, when positive, delay
animationTransitionCSS(a) ==
    LET duration == floatProperty(a, Duration, 10)
        delay == floatProperty(a, Delay, 0)
    IN  <<IF duration > 0 THEN FormatFloat(duration) ELSE "1", timingFunctionCSS(a)>>
            \o (IF delay > 0 THEN <<FormatFloat(delay)>> ELSE <<>>)

-----------------------------------------------------------------------------
(* The animations and sessions as a state machine: specification SpecAnimation *)

AnimationIds == {1, 2}
SessionIds == {1, 2}

\* the permutations of a set as sequences
Perms(S) ==
    {f \in [1..Cardinality(S) -> S] : \A i, j \in 1..Cardinality(S) : i # j => f[i] # f[j]}

\* the orders in which the ranges over the keyframe maps of props can yield their keys
KeyOrders(props) ==
    LET all == UNION {Perms(DOMAIN props[k].KeyFrames.m) : k \in 1..Len(props)}
    IN  {o \in [1..Len(props) -> all] :
            \A k \in 1..Len(props) : o[k] \in Perms(DOMAIN props[k].KeyFrames.m)}

FramesOf(pairs) == Frames([k \in {p[1] : p \in pairs} |->
                              Str((CHOOSE p \in pairs : p[1] = k)[2])])

\* the AnimatedProperty values given to Set
PropExample ==
    AnimatedProperty("width", Nil, Nil,
                     FramesOf({<<0, "red">>, <<50, "blue">>, <<100, "green">>}))
PropPlain == AnimatedProperty("width", Str("a"), Str("b"), NilFrames)
PropFromGiven ==
    AnimatedProperty("opacity", Str("x"), Nil,
                     FramesOf({<<0, "y">>, <<100, "z">>, <<150, "w">>}))
PropTwoFrames ==
    AnimatedProperty("height", Str("c"), Str("d"), FramesOf({<<25, "e">>, <<75, "f">>}))
PropMiddle ==
    AnimatedProperty("width", Str("a"), Str("b"), FramesOf({<<50, "m">>}))
PropNoFrom == AnimatedProperty("width", Nil, Str("b"), FramesOf({<<50, "m">>}))
PropNoTo == AnimatedProperty("left", Str("a"), Nil, NilFrames)

SingleProperties ==
    {PropExample, PropPlain, PropFromGiven, PropTwoFrames, PropNoFrom, PropNoTo}

PropertyLists ==
    {AnimatedProperties(<<PropExample, PropNoFrom, PropTwoFrames>>),
     AnimatedProperties(<<PropTwoFrames, PropMiddle>>),
     AnimatedProperties(<<PropNoFrom, PropNoTo>>),
     AnimatedProperties(<<>>)}

PropertyNodes ==
    {ObjectNode(<<Node("from", "a"), Node("50%", "m"), Node("To", "b")>>),
     ObjectNode(<<Node("from", "a"), Node("150%", "m")>>),
     ArrayNode(<<[isObject |-> TRUE, nodes |-> <<Node("0%", "a"), Node("100", "b")>>],
                 [isObject |-> FALSE, nodes |-> <<>>]>>)}

\* the timing-function strings given to Set
TimingInputs ==
    {"", "ease", "ease-in", "ease-out", "ease-in-out", "linear", "bounce",
     "steps(4)", "steps(a)", "steps()", "(4)", "steps(4",
     "cubic-bezier(0.1,0.7,1,0.1)", "cubic-bezier(1,2,3)", "cubic-bezier(1,2,3,x)"}

AnimationValues(tag) ==
    CASE tag = PropertyTag ->
            SingleProperties \cup PropertyLists \cup PropertyNodes \cup {Str("width")}
      [] tag = TimingFunction -> {Str(t) : t \in TimingInputs} \cup {IntVal(1)}
      [] tag = Duration -> {Float(5), Float(0 - 5), Str("abc")}
      [] tag = Delay -> {Float(20), Float(0 - 5), Float(0)}
      [] tag = IterationCount -> {IntVal(3), IntVal(0), IntVal(0 - 1)}
      [] tag = AnimationDirection -> {IntVal(2), Str("reverse"), IntVal(7)}
      [] tag = ID -> {Str(" a1 "), Str("  "), IntVal(1)}
      [] OTHER -> {Str("x")}

AnimationTags ==
    {PropertyTag, TimingFunction, Duration, Delay, IterationCount, AnimationDirection,
     Direction, ID, "width"}

\* animation 1 is new or has two animated properties, animation 2 has one
InitAnimation ==
    /\ view = NewViewData("View")
    /\ loopVarShared = FALSE
    /\ hist = <<>>
    /\ outstanding = {}
    /\ \E params \in {<<>>, <<<<PropertyTag, AnimatedProperties(<<PropTwoFrames, PropMiddle>>)>>>>} :
          animations = [i \in AnimationIds |->
                           IF i = 1
                           THEN NewAnimation(NewAnimationData, params)
                           ELSE NewAnimation(NewAnimationData,
                                             <<<<PropertyTag, PropPlain>>,
                                               <<Duration, Float(5)>>>>)]
    /\ sessions = [s \in SessionIds |-> NewSession]

AnimationEntry(op, a, tag, value, s, ok, css, pre, post, before, after) ==
    [op |-> op, a |-> a, tag |-> tag, value |-> value, s |-> s, ok |-> ok, css |-> css,
     pre |-> pre, post |-> post, before |-> before, after |-> after]

\* animation.Set(tag, value) on animation 1
AnimationSet ==
    \E tag \in AnimationTags :
        \E value \in AnimationValues(normalizeTag(tag)) \cup {Nil} :
            LET r == animationSet([animations[1] EXCEPT !.log = <<>>], tag, value)
            IN  /\ Len(hist) < MaxAnimationOps
                /\ animations' = [animations EXCEPT ![1] = r.v]
                /\ hist' = Append(hist, AnimationEntry("Set", 1, tag, value, 0, r.ok, <<>>,
                                                       animations[1], r.v, sessions, sessions))
                /\ UNCHANGED <<view, loopVarShared, outstanding, sessions>>

\* animation.animationCSS(session): the animation is rendered for a session
AnimationRender ==
    \E a \in AnimationIds, s \in SessionIds :
        \E orders \in KeyOrders(IF animationGet(animations[a], PropertyTag).t = "animatedproperties"
                                THEN animationGet(animations[a], PropertyTag).props
                                ELSE <<>>) :
            LET r == animationCSS([animations[a] EXCEPT !.log = <<>>], sessions[s], orders)
            IN  /\ Len(hist) < MaxAnimationOps
                /\ animations' = [animations EXCEPT ![a] = r.a]
                /\ sessions' = [sessions EXCEPT ![s] = r.session]
                /\ hist' = Append(hist, AnimationEntry("Render", a, "", Nil, s, r.css # <<>>,
                                                       r.css, animations[a], r.a, sessions,
                                                       [sessions EXCEPT ![s] = r.session]))
                /\ UNCHANGED <<view, loopVarShared, outstanding>>

\* animation.transitionCSS(buffer, session): animation 1 is written as the
\* transition of a property
AnimationTransition ==
    LET css == animationTransitionCSS(animations[1])
    IN  /\ Len(hist) < MaxAnimationOps
        /\ hist' = Append(hist, AnimationEntry("Transition", 1, "", Nil, 0, TRUE, css,
                                               animations[1], animations[1],
                                               sessions, sessions))
        /\ UNCHANGED <<view, loopVarShared, outstanding, animations, sessions>>

NextAnimation ==
    \/ AnimationSet
    \/ AnimationRender
    \/ AnimationTransition

SpecAnimation == InitAnimation /\ [][NextAnimation]_vars

-----------------------------------------------------------------------------
(* Claims about animations, checked under SpecAnimation *)

Renders == {i \in 1..Len(hist) : hist[i].op = "Render"}
PropertySets ==
    {i \in 1..Len(hist) : hist[i].op = "Set" /\ normalizeTag(hist[i].tag) = PropertyTag}

\* the render hist[i] registered keyframes in its session
Registered(i) ==
    hist[i].after[hist[i].s].animationCounter # hist[i].before[hist[i].s].animationCounter

\* C14: once an Animation has been rendered with a keyframe name, every later
\* rendering of the same Animation, for any session, carries the same name and
\* registers nothing: the keyframes are registered at most once per Animation.
C14_KeyframeNamedOnce ==
    \A i, j \in Renders :
        (i < j /\ hist[i].a = hist[j].a /\ hist[i].css # <<>>)
            => /\ hist[j].css # <<>>
               /\ hist[j].css[1] = hist[i].css[1]
               /\ hist[j].after = hist[j].before

\* an Animation rendered twice, for two different sessions
C14_Witness ==
    \E i, j \in Renders :
        /\ i < j /\ hist[i].a = hist[j].a /\ hist[i].css # <<>>
        /\ hist[i].s # hist[j].s

\* C15: the keyframe names of two Animations differ, whatever the sessions they
\* were registered in, and within one session a later registration gets a
\* greater counter value.
C15_KeyframeNamesUnique ==
    /\ \A a, b \in AnimationIds :
          (a # b /\ animations[a].keyFramesName # "")
              => animations[a].keyFramesName # animations[b].keyFramesName
    /\ \A i, j \in Renders :
          (i < j /\ hist[i].s = hist[j].s /\ Registered(i) /\ Registered(j))
              => hist[j].after[hist[j].s].animationCounter
                     > hist[i].after[hist[i].s].animationCounter

\* the keys of the keyframe map that Set moves into From and To
Promoted(p) ==
    {k \in DOMAIN p.KeyFrames.m : \/ k = 0 /\ p.From.t = "nil"
                                  \/ k = 100 /\ p.To.t = "nil"}

\* the normal form of an AnimatedProperty as the specification states it
NormalForm(p) ==
    [t |-> "animatedproperty", Tag |-> p.Tag,
     From |-> IF 0 \in Promoted(p) THEN p.KeyFrames.m[0] ELSE p.From,
     To |-> IF 100 \in Promoted(p) THEN p.KeyFrames.m[100] ELSE p.To,
     KeyFrames |-> [isNil |-> p.KeyFrames.isNil,
                    m |-> [k \in DOMAIN p.KeyFrames.m \ Promoted(p) |-> p.KeyFrames.m[k]]]]

ValidNormal(p) == NormalForm(p).From.t # "nil" /\ NormalForm(p).To.t # "nil"

\* C16: Set("property", AnimatedProperty) stores the property with the 0% entry
\* moved into an absent From and the 100% entry moved into an absent To, the
\* moved entries removed from the keyframe map and all other entries kept.
C16_PropertyNormalized ==
    \A i \in PropertySets :
        (hist[i].value.t = "animatedproperty" /\ hist[i].ok)
            => /\ animationGet(hist[i].post, PropertyTag)
                      = AnimatedProperties(<<NormalForm(hist[i].value)>>)
               /\ hist[i].value = PropExample
                      => animationGet(hist[i].post, PropertyTag).props[1]
                             = AnimatedProperty("width", Str("red"), Str("green"),
                                                FramesOf({<<50, "blue">>}))

\* a property with 0%, 50% and 100% keyframes and neither From nor To was set
C16_Witness ==
    \E i \in PropertySets : hist[i].value = PropExample /\ hist[i].ok

\* C17: Set("property", []AnimatedProperty) stores exactly the valid entries, in
\* their order and in normal form; with no valid entry it returns false and
\* the stored list is unchanged.
C17_ValidEntriesStored ==
    \A i \in PropertySets :
        hist[i].value.t = "animatedproperties"
            => LET valid == SelectSeq(hist[i].value.props, ValidNormal)
               IN  IF valid = <<>>
                   THEN /\ ~hist[i].ok
                        /\ animationGet(hist[i].post, PropertyTag)
                               = animationGet(hist[i].pre, PropertyTag)
                   ELSE /\ hist[i].ok
                        /\ animationGet(hist[i].post, PropertyTag)
                               = AnimatedProperties([k \in 1..Len(valid) |->
                                                        NormalForm(valid[k])])

\* a list with an invalid entry between two valid ones was set, and a list
\* without valid entries was given to an animation that has properties
C17_Witness ==
    /\ \E i \in PropertySets :
          /\ hist[i].value = AnimatedProperties(<<PropExample, PropNoFrom, PropTwoFrames>>)
          /\ hist[i].ok
    /\ \E i \in PropertySets :
          /\ hist[i].value = AnimatedProperties(<<PropNoFrom, PropNoTo>>)
          /\ animationGet(hist[i].pre, PropertyTag) # Nil

\* C18: a registration emits a block for every percentage that occurs in the
\* keyframe map of any of the animated properties, whatever the order in which
\* the maps are iterated.
C18_EveryPercentageEmitted ==
    \A i \in Renders :
        Registered(i)
            => LET props == animationGet(hist[i].pre, PropertyTag).props
                   style == hist[i].after[hist[i].s].animationCSS[
                                Len(hist[i].after[hist[i].s].animationCSS)]
                   frames == UNION {DOMAIN props[k].KeyFrames.m : k \in 1..Len(props)}
               IN  \A f \in frames :
                       \E b \in 1..Len(style.blocks) :
                           style.blocks[b].selector = FrameSelector(f)

\* the timing functions the specification accepts, among TimingInputs
WellFormedTimings ==
    {"ease", "ease-in", "ease-out", "ease-in-out", "linear", "steps(4)",
     "cubic-bezier(0.1,0.7,1,0.1)"}

\* C19: the validation of a timing function accepts the five keywords,
\* steps(N) and cubic-bezier(a, b, c, d) and rejects every other string, the
\* empty one included; a rejected or unset timing function is rendered as "ease".
C19_TimingValidated ==
    /\ \A i \in 1..Len(hist) :
          (hist[i].op = "Set" /\ normalizeTag(hist[i].tag) = TimingFunction
              /\ hist[i].value.t = "string")
              => (validateTimingFunction(hist[i].value.s)
                     <=> hist[i].value.s \in WellFormedTimings)
    /\ \A i \in Renders :
          hist[i].css # <<>>
              => LET stored == animationGet(hist[i].pre, TimingFunction)
                 IN  hist[i].css[3] =
                         IF stored.t = "string" /\ stored.s \in WellFormedTimings
                         THEN stored.s
                         ELSE "ease"

\* the style registered by the render hist[i]
RegisteredStyle(i) ==
    hist[i].after[hist[i].s].animationCSS[Len(hist[i].after[hist[i].s].animationCSS)]

\* the percentage of the selector of a percentage block
PercentOf(selector) ==
    CHOOSE f \in {0 - 5, 0, 25, 50, 75, 100, 150} : FrameSelector(f) = selector

\* C26: the blocks of a registered style are the "from" block, then percentage
\* blocks in strictly ascending order of percentage, none repeated, then the
\* "to" block, whatever the order in which the keyframe maps are iterated.
C26_PercentagesAscending ==
    \A i \in Renders :
        Registered(i)
            => LET blocks == RegisteredStyle(i).blocks
                   n == Len(blocks)
               IN  /\ n >= 2
                   /\ blocks[1].selector = "from"
                   /\ blocks[n].selector = "to"
                   /\ \A k \in 2..(n - 1) : blocks[k].selector \notin {"from", "to"}
                   /\ \A k \in 2..(n - 2) :
                          PercentOf(blocks[k].selector) < PercentOf(blocks[k + 1].selector)

\* a style with two percentage blocks was registered
C26_Witness ==
    \E i \in Renders : Registered(i) /\ Len(RegisteredStyle(i).blocks) >= 4

\* C27: every AnimatedProperty stored in an Animation has From and To and a
\* keyframe map whose keys are all greater than 0 and less than 100.
C27_StoredPropertiesNormal ==
    \A a \in AnimationIds :
        LET stored == animationGet(animations[a], PropertyTag)
        IN  stored # Nil
                => \A k \in 1..Len(stored.props) :
                       /\ stored.props[k].From # Nil
                       /\ stored.props[k].To # Nil
                       /\ \A f \in DOMAIN stored.props[k].KeyFrames.m : 0 < f /\ f < 100

\* C28: the iteration count of a rendered animation is the count n for n > 0,
\* "1" for the count 0 and "infinite" for a negative count and for an
\* animation without iteration count.
C28_IterationCountRendered ==
    \A i \in Renders :
        hist[i].css # <<>>
            => LET count == animationGet(hist[i].pre, IterationCount)
               IN  hist[i].css[5] =
                       IF count.t = "int" /\ count.n > 0 THEN FormatInt(count.n)
                       ELSE IF count.t = "int" /\ count.n = 0 THEN "1"
                       ELSE "infinite"

\* C29: the delay stored in an animation, negative ones included, is written
\* with its value into the CSS animation and into the transition; 0 is written
\* only for a delay that is not set or is zero.
C29_DelayRendered ==
    \A i \in 1..Len(hist) :
        LET delay == animationGet(hist[i].pre, Delay)
            expected == IF delay.t = "float" /\ delay.n # 0
                        THEN FormatFloat(delay.n)
                        ELSE "0"
        IN  /\ (hist[i].op = "Render" /\ hist[i].css # <<>>) => hist[i].css[4] = expected
            /\ (hist[i].op = "Transition" /\ delay.t = "float" /\ delay.n # 0)
                   => (Len(hist[i].css) = 3 /\ hist[i].css[3] = expected)

-----------------------------------------------------------------------------
(* The border tags of a view as a state machine: specification SpecBorder *)

BorderTags ==
    {"border-left-width", "border-right-width", "border-top-width", "border-bottom-width",
     "Border-Left-Width", BorderWidth, "border-left", Border}

BorderValues(tag) ==
    IF tag \in BorderWidthTags
    THEN {Float(10), Float(20), Str("abc")}
    ELSE {Params([k \in {"width"} |-> Float(10)]), Str("abc")}

\* a view before or after it has been rendered, with or without a border
InitBorder ==
    /\ \E rendered \in BOOLEAN, bordered \in BOOLEAN :
          LET v0 == NewViewData("View")
              v1 == IF bordered
                    THEN Set(v0, Border, Params([k \in {"width"} |-> Float(10)])).v
                    ELSE v0
          IN  view = Begin(IF rendered THEN htmlProperties(v1) ELSE v1)
    /\ loopVarShared = FALSE
    /\ hist = <<>>
    /\ outstanding = {}
    /\ animations = <<>>
    /\ sessions = <<>>

BorderSet ==
    \E tag \in BorderTags :
        \E value \in BorderValues(ToLower(tag)) :
            LET r == Set(Begin(view), tag, value)
            IN  /\ Len(hist) < MaxBorderOps
                /\ view' = r.v
                /\ hist' = Append(hist, Entry("Set", tag, value, NilAnimation,
                                              r.ok, view, r.v))
                /\ UNCHANGED <<loopVarShared, outstanding, animations, sessions>>

BorderRemove ==
    \E tag \in BorderTags :
        LET w == Remove(Begin(view), tag)
        IN  /\ Len(hist) < MaxBorderOps
            /\ view' = w
            /\ hist' = Append(hist, Entry("Remove", tag, Nil, NilAnimation,
                                          TRUE, view, w))
            /\ UNCHANGED <<loopVarShared, outstanding, animations, sessions>>

NextBorder ==
    \/ BorderSet
    \/ BorderRemove

SpecBorder == InitBorder /\ [][NextBorder]_vars

\* the CSS properties that the operation hist[i] sent an update for, in order
CSSUpdates(i) ==
    LET ups == SelectSeq(hist[i].post.out, LAMBDA o : o.f = "updateCSSProperty")
    IN  [k \in 1..Len(ups) |-> ups[k].p]

EdgeWidthTags ==
    {"border-left-width", "border-right-width", "border-top-width", "border-bottom-width"}

\* C20: on a rendered view a successful Set or Remove of border-left-width,
\* border-right-width, border-top-width or border-bottom-width sends updates
\* for exactly border-width, border-color and border-style, or sends none.
C20_EdgeWidthUpdatesTriple ==
    \A i \in 1..Len(hist) :
        (hist[i].pre.created /\ hist[i].ok /\ ToLower(hist[i].tag) \in EdgeWidthTags)
            => \/ CSSUpdates(i) = <<>>
               \/ /\ Len(CSSUpdates(i)) = 3
                  /\ {CSSUpdates(i)[k] : k \in 1..3} = {BorderWidth, BorderColor, BorderStyle}

-----------------------------------------------------------------------------
(* Change notification as a state machine: specification SpecNotify *)

\* the listener of the literal tags and the listener of the group tags
TheGroupListener == 8

GroupTags ==
    {Border, "cell-border", "outline", "radius", "margin", "padding", "cell-padding",
     "column-separator"}

\* one or two sub-tags of every family, a group tag and a tag without a group
NotifyTags ==
    {"border-left-width", "border-top", "cell-border-width", "outline-width", "radius-x",
     "margin-top", "padding-left", "cell-padding-top", "column-separator-width",
     Border, Opacity}

NotifyValues(tag) ==
    IF tag \in SizeTags \cup FloatTags
    THEN {Float(10), Str("abc")}
    ELSE {Params([k \in {"width"} |-> Float(10)]), Str("abc")}

RECURSIVE WatchAll(_, _, _)
WatchAll(v, tags, listener) ==
    IF tags = {}
    THEN v
    ELSE LET t == CHOOSE x \in tags : TRUE
         IN  WatchAll(SetChangeListener(v, t, listener), tags \ {t}, listener)

\* a view with or without the listener of the literal tags, with or without
\* the listener of the group tags (which then replaces the literal listener of
\* "border"), before or after it has been rendered
InitNotify ==
    /\ \E rendered \in BOOLEAN, literal \in BOOLEAN, grouped \in BOOLEAN :
          LET v0 == NewViewData("View")
              v1 == IF literal THEN WatchAll(v0, NotifyTags, TheChangeListener) ELSE v0
              v2 == IF grouped THEN WatchAll(v1, GroupTags, TheGroupListener) ELSE v1
          IN  view = Begin(IF rendered THEN htmlProperties(v2) ELSE v2)
    /\ loopVarShared = FALSE
    /\ hist = <<>>
    /\ outstanding = {}
    /\ animations = <<>>
    /\ sessions = <<>>

NotifySet ==
    \E tag \in NotifyTags :
        \E value \in NotifyValues(tag) :
            LET r == Set(Begin(view), tag, value)
            IN  /\ Len(hist) < MaxNotifyOps
                /\ view' = r.v
                /\ hist' = Append(hist, Entry("Set", tag, value, NilAnimation,
                                              r.ok, view, r.v))
                /\ UNCHANGED <<loopVarShared, outstanding, animations, sessions>>

NotifyRemove ==
    \E tag \in NotifyTags :
        LET w == Remove(Begin(view), tag)
        IN  /\ Len(hist) < MaxNotifyOps
            /\ view' = w
            /\ hist' = Append(hist, Entry("Remove", tag, Nil, NilAnimation,
                                          TRUE, view, w))
            /\ UNCHANGED <<loopVarShared, outstanding, animations, sessions>>

NextNotify ==
    \/ NotifySet
    \/ NotifyRemove

SpecNotify == InitNotify /\ [][NextNotify]_vars

\* the group of the tags of NotifyTags as the specification lists the families
FamilyGroup ==
    [t \in NotifyTags |->
        CASE t \in {"border-left-width", "border-top"} -> "border"
          [] t = "cell-border-width" -> "cell-border"
          [] t = "outline-width" -> "outline"
          [] t = "radius-x" -> "radius"
          [] t = "margin-top" -> "margin"
          [] t = "padding-left" -> "padding"
          [] t = "cell-padding-top" -> "cell-padding"
          [] t = "column-separator-width" -> "column-separator"
          [] OTHER -> ""]

\* C21: a successful mutation of a tag calls the change listener of the tag, if
\* registered, with (view, tag) and after it the change listener of the group
\* of the tag, if registered, with (view, group); nothing else is called, and a
\* tag without a group calls the listener of the tag only.
C21_LiteralThenGroupListener ==
    \A i \in 1..Len(hist) :
        LET e == hist[i]
            group == FamilyGroup[e.tag]
            literal == IF Has(e.pre.changeListener, e.tag)
                       THEN <<[fn |-> e.pre.changeListener[e.tag],
                               args |-> <<"view", e.tag>>]>>
                       ELSE <<>>
            grouped == IF group # "" /\ Has(e.pre.changeListener, group)
                       THEN <<[fn |-> e.pre.changeListener[group],
                               args |-> <<"view", group>>]>>
                       ELSE <<>>
        IN  e.ok => e.post.calls = literal \o grouped

\* a sub-tag of a family was changed on a view that has both listeners
C21_Witness ==
    \E i \in 1..Len(hist) :
        /\ hist[i].ok /\ hist[i].op = "Set"
        /\ FamilyGroup[hist[i].tag] # ""
        /\ Len(hist[i].post.calls) = 2
        /\ hist[i].post.calls[1].fn = TheChangeListener
        /\ hist[i].post.calls[2].fn = TheGroupListener

-----------------------------------------------------------------------------
(* Collections with nil elements given to a drop-down list: specification SpecNil *)

NilTags == {Items, DropDownEvent, Current, TransitionEndEvent}

NilValues(tag) ==
    CASE tag = Items ->
            {StringerList(<<"a", "<nil>">>), StringerList(<<"a", "b">>),
             AnyList(<<Str("a"), Nil>>)}
      [] tag = DropDownEvent ->
            {FuncList("li", <<5, 0>>), FuncList("i", <<6, 0>>),
             AnyList(<<Func("i", 6), Nil>>), AnyList(<<Func("i", 6), NilFunc("li")>>)}
      [] tag = Current -> {IntVal(1), IntVal(2)}
      [] tag = TransitionEndEvent ->
            {FuncList("vs", <<1, 0>>), AnyList(<<Func("0", 2), Nil>>),
             AnyList(<<Func("s", 3), NilFunc("v")>>)}
      [] OTHER -> {}

InitNil ==
    /\ \E rendered \in BOOLEAN :
          view = Begin(IF rendered
                       THEN htmlProperties(NewViewData("DropDownList"))
                       ELSE NewViewData("DropDownList"))
    /\ loopVarShared = FALSE
    /\ hist = <<>>
    /\ outstanding = {}
    /\ animations = <<>>
    /\ sessions = <<>>

\* an operation that panics ends the program: nothing is called after it
NilSet ==
    \E tag \in NilTags :
        \E value \in NilValues(tag) :
            LET r == Set(Begin(view), tag, value)
            IN  /\ Len(hist) < MaxNilOps
                /\ ~view.panicked
                /\ view' = r.v
                /\ hist' = Append(hist, Entry("Set", tag, value, NilAnimation,
                                              r.ok, view, r.v))
                /\ UNCHANGED <<loopVarShared, outstanding, animations, sessions>>

NilRemove ==
    \E tag \in NilTags :
        LET w == Remove(Begin(view), tag)
        IN  /\ Len(hist) < MaxNilOps
            /\ ~view.panicked
            /\ view' = w
            /\ hist' = Append(hist, Entry("Remove", tag, Nil, NilAnimation,
                                          TRUE, view, w))
            /\ UNCHANGED <<loopVarShared, outstanding, animations, sessions>>

NilSetAnimated ==
    \E animation \in {NilAnimation, "A1"} :
        LET r == SetAnimated(Begin(view), Opacity, Float(5), animation)
        IN  /\ Len(hist) < MaxNilOps
            /\ ~view.panicked
            /\ view' = r.v
            /\ hist' = Append(hist, Entry("SetAnimated", Opacity, Float(5), animation,
                                          r.ok, view, r.v))
            /\ UNCHANGED <<loopVarShared, outstanding, animations, sessions>>

\* the transition-end event of the client arrives
NilEvent ==
    LET w == handleTransitionEvents(Begin(view), TransitionEndEvent, EventData(Opacity))
    IN  /\ Len(hist) < MaxNilOps
        /\ ~view.panicked
        /\ view' = w
        /\ hist' = Append(hist, Entry(TransitionEndEvent, "", Nil, NilAnimation,
                                      TRUE, view, w))
        /\ UNCHANGED <<loopVarShared, outstanding, animations, sessions>>

NextNil ==
    \/ NilSet
    \/ NilRemove
    \/ NilSetAnimated
    \/ NilEvent

SpecNil == InitNil /\ [][NextNil]_vars

\* C25: no operation ends in a panic: Set, Remove, SetAnimated and the handling
\* of an event return normally for every input, collections with nil elements
\* included.
C25_NoPanic ==
    \A i \in 1..Len(hist) : ~hist[i].post.panicked

-----------------------------------------------------------------------------
(* Delivery of the transition events: specification SpecEvents *)

\* what the client sends with an event: the property of the transition, a
\* property that has no override, or no property at all
EventPayloads == {EventData(Opacity), EventData("width"), EmptyMap}

\* a view with two listeners for every kind of event, with or without a
\* declared transition of opacity, with or without an override in progress
InitEvents ==
    /\ \E steady \in BOOLEAN, overriding \in BOOLEAN :
          LET v1 == IF steady THEN AddTransition(ListeningView, Opacity, "A0").v
                    ELSE ListeningView
              v2 == IF overriding THEN SetAnimated(v1, Opacity, Float(5), "A1").v ELSE v1
          IN  view = Begin(v2)
    /\ loopVarShared = FALSE
    /\ hist = <<>>
    /\ outstanding = {}
    /\ animations = <<>>
    /\ sessions = <<>>

EventsSetAnimated ==
    \E value \in {Float(5), Str("abc")}, animation \in {"A1", "A2"} :
        LET r == SetAnimated(Begin(view), Opacity, value, animation)
        IN  /\ Len(hist) < MaxEventOps
            /\ view' = r.v
            /\ hist' = Append(hist, Entry("SetAnimated", Opacity, value, animation,
                                          r.ok, view, r.v))
            /\ UNCHANGED <<loopVarShared, outstanding, animations, sessions>>

\* handleCommand with one of the four transition events
EventsDeliver ==
    \E kind \in TransitionEventTags, data \in EventPayloads :
        LET w == handleTransitionEvents(Begin(view), kind, data)
        IN  /\ Len(hist) < MaxEventOps
            /\ view' = w
            /\ hist' = Append(hist, Entry(kind,
                                          IF Has(data, "property") THEN data["property"]
                                          ELSE "",
                                          Bool(Has(data, "property")), NilAnimation,
                                          TRUE, view, w))
            /\ UNCHANGED <<loopVarShared, outstanding, animations, sessions>>

NextEvents ==
    \/ EventsSetAnimated
    \/ EventsDeliver

SpecEvents == InitEvents /\ [][NextEvents]_vars

\* C30: an event of one of the four kinds that carries a property calls every
\* listener registered for the kind once, in the order of registration, with
\* (view, property); for an end or cancel event the listeners are called after
\* the override has been put back, so that a listener does not find the
\* property in singleTransition; an event without property calls no listener
\* and changes nothing.
C30_ListenersAfterRestore ==
    \A i \in 1..Len(hist) :
        LET e == hist[i]
            ls == getAnimationListeners(e.pre, e.op)
        IN  e.op \in TransitionEventTags
                => IF e.value = Bool(TRUE)
                   THEN /\ e.post.calls = [j \in 1..Len(ls) |-> ProjectedCall(ls[j], e.tag)]
                        /\ Len(e.post.seen) = Len(ls)
                        /\ e.op \in TerminalEvents
                               => \A j \in 1..Len(ls) : e.tag \notin e.post.seen[j]
                   ELSE e.post = Begin(e.pre)

\* an end event arrived for an overridden property and both listeners were called
C30_Witness ==
    \E i \in 1..Len(hist) :
        /\ hist[i].op = TransitionEndEvent
        /\ hist[i].value = Bool(TRUE)
        /\ Has(hist[i].pre.singleTransition, hist[i].tag)
        /\ Len(hist[i].post.calls) = 2

-----------------------------------------------------------------------------
(* Change listeners and the letter case of tags: specification SpecCase *)

MaxCaseOps == 3

\* the spellings the three operations are called with
CaseSpellings == {"opacity", "Opacity"}

InitCase ==
    /\ \E rendered \in BOOLEAN :
          view = Begin(IF rendered THEN htmlProperties(NewViewData("View"))
                                   ELSE NewViewData("View"))
    /\ loopVarShared = FALSE
    /\ hist = <<>>
    /\ outstanding = {}
    /\ animations = <<>>
    /\ sessions = <<>>

\* SetChangeListener(tag, listener); the entry keeps the listener as its value
CaseSetChangeListener ==
    \E tag \in CaseSpellings, listener \in {0, TheChangeListener} :
        LET w == SetChangeListener(Begin(view), tag, listener)
        IN  /\ Len(hist) < MaxCaseOps
            /\ view' = w
            /\ hist' = Append(hist, Entry("SetChangeListener", tag, IntVal(listener),
                                          NilAnimation, TRUE, view, w))
            /\ UNCHANGED <<loopVarShared, outstanding, animations, sessions>>

CaseSet ==
    \E tag \in CaseSpellings, value \in AnimatedValues :
        LET r == Set(Begin(view), tag, value)
        IN  /\ Len(hist) < MaxCaseOps
            /\ view' = r.v
            /\ hist' = Append(hist, Entry("Set", tag, value, NilAnimation,
                                          r.ok, view, r.v))
            /\ UNCHANGED <<loopVarShared, outstanding, animations, sessions>>

CaseRemove ==
    \E tag \in CaseSpellings :
        LET w == Remove(Begin(view), tag)
        IN  /\ Len(hist) < MaxCaseOps
            /\ view' = w
            /\ hist' = Append(hist, Entry("Remove", tag, Nil, NilAnimation,
                                          TRUE, view, w))
            /\ UNCHANGED <<loopVarShared, outstanding, animations, sessions>>

NextCase ==
    \/ CaseSetChangeListener
    \/ CaseSet
    \/ CaseRemove

SpecCase == InitCase /\ [][NextCase]_vars

\* the listener that the registrations before entry i leave for the tag, the
\* spellings compared without their letter case; 0 when there is none
RECURSIVE RegisteredBefore(_, _)
RegisteredBefore(i, tag) ==
    IF i <= 1
    THEN 0
    ELSE IF /\ hist[i - 1].op = "SetChangeListener"
            /\ ToLower(hist[i - 1].tag) = ToLower(tag)
         THEN hist[i - 1].value.n
         ELSE RegisteredBefore(i - 1, tag)

\* C31: a change listener registered under a tag in any letter case is called
\* after a successful Set or Remove of the tag given in any letter case, and
\* SetChangeListener(tag, nil) in any letter case unregisters it.
C31_ListenerTagsIgnoreCase ==
    \A i \in 1..Len(hist) :
        LET e == hist[i]
            listener == RegisteredBefore(i, e.tag)
            called == \E j \in 1..Len(e.post.calls) : e.post.calls[j].fn = listener
        IN  (e.op \in {"Set", "Remove"} /\ e.ok /\ Store(e.post) # Store(e.pre)) =>
                IF listener = 0 THEN e.post.calls = <<>> ELSE called

\* the value that a rejected Set reports: the value itself, and for the
\* elements of a data node their texts, which is what the coercion was given
RejectedValue(value) ==
    IF value.t = "datalist" THEN StrList(dataValues(value.elems)) ELSE value

\* C33: whenever Set(T, V) fails on the coercion of V, the line written to the
\* log names the tag T that was being set together with the rejected value V.
C33_DiagnosticNamesTag ==
    \A i \in 1..Len(hist) :
        LET e == hist[i]
        IN  (e.op = "Set" /\ ~e.ok /\ e.value # Nil) =>
                \E j \in 1..Len(e.post.log) :
                    e.post.log[j] = [tag |-> ToLower(e.tag),
                                     value |-> RejectedValue(e.value)]

\* whether a collection of listeners has a nil element
HasNilElement(value) ==
    CASE value.t = "funclist" -> \E k \in 1..Len(value.ids) : value.ids[k] = 0
      [] value.t = "anylist" ->
            \E k \in 1..Len(value.elems) :
                value.elems[k] = Nil
                    \/ (value.elems[k].t = "func" /\ value.elems[k].id = 0)
      [] OTHER -> FALSE

\* C34: a Set of drop-down-event to a collection of listeners that has a nil
\* element returns false and leaves the stored list of drop-down listeners
\* unchanged, and no stored list of drop-down listeners has a nil entry.
C34_NilDropDownListenerRejected ==
    \A i \in 1..Len(hist) :
        LET e == hist[i]
        IN  /\ (e.op = "Set" /\ ToLower(e.tag) = DropDownEvent /\ HasNilElement(e.value)) =>
                   /\ ~e.ok
                   /\ e.post.dropDownListener = e.pre.dropDownListener
            /\ \A k \in 1..Len(e.post.dropDownListener) :
                   e.post.dropDownListener[k] # Canon("li", 0)

\* C37: a steady transition declared while an override is in flight survives
\* the override: when AddTransition(tag, S) succeeds while the tag has an entry
\* in singleTransition and installs S as transitions[tag], transitions[tag] = S
\* after the terminal event of the override that follows it.
C37_DeclaredTransitionSurvives ==
    \A i \in 1..Len(hist) :
        \A j \in 1..Len(hist) :
            LET a == hist[i]
                e == hist[j]
                tag == ToLower(a.tag)
            IN  (/\ j = i + 1
                 /\ a.op = "AddTransition" /\ a.ok /\ a.tag = tag
                 /\ Has(a.pre.singleTransition, tag)
                 /\ TransitionOf(a.post, tag) = a.animation
                 /\ e.op \in TerminalEvents /\ e.tag = tag) =>
                    TransitionOf(e.post, tag) = a.animation

\* C38: whenever the rendering of an Animation for a session yields a CSS
\* animation with the keyframe name N, keyframes named N have been registered
\* with that session, also when the Animation was rendered before for another
\* session.
C38_KeyframesRegisteredInSession ==
    \A i \in Renders :
        hist[i].css # <<>> =>
            \E k \in 1..Len(hist[i].after[hist[i].s].animationCSS) :
                hist[i].after[hist[i].s].animationCSS[k].name = hist[i].css[1]

\* C39: an end or cancel event for a property that has no entry in
\* singleTransition leaves transitions unchanged: the steady transition declared
\* for the property is neither removed nor replaced, and the transition
\* declaration is not sent again.
C39_EventWithoutOverrideKeepsTransitions ==
    \A i \in 1..Len(hist) :
        LET e == hist[i]
        IN  (/\ e.op \in TerminalEvents
             /\ e.value = Bool(TRUE)
             /\ ~Has(e.pre.singleTransition, e.tag)) =>
                /\ e.post.transitions = e.pre.transitions
                /\ e.post.singleTransition = e.pre.singleTransition
                /\ \A k \in 1..Len(e.post.out) : e.post.out[k].p # "transition"

\* an end or cancel event arrived for a property that has a declared steady
\* transition and no override
C39_Witness ==
    \E i \in 1..Len(hist) :
        /\ hist[i].op \in TerminalEvents
        /\ hist[i].value = Bool(TRUE)
        /\ ~Has(hist[i].pre.singleTransition, hist[i].tag)
        /\ Has(hist[i].pre.transitions, hist[i].tag)
        /\ hist[i].post.transitions = hist[i].pre.transitions

-----------------------------------------------------------------------------
(* The selection of a drop-down list: specification SpecSelect *)

MaxSelectOps == 3

\* strconv.Atoi on the texts that the client sends as the number of an item
CommandNumbers == {"-1", "0", "1", "2", "x"}
ParseNumber(text) ==
    CASE text \in DecimalStrings -> [n |-> Atoi(text), ok |-> TRUE]
      [] text = "-1" -> [n |-> 0 - 1, ok |-> TRUE]
      [] OTHER -> [n |-> 0, ok |-> FALSE]

\* a handler that selects whatever number the client sends
listHandleCommand_unchecked(v, command, data) ==
    IF command = "itemSelected" /\ "number" \in DOMAIN data
          /\ data["number"] \in {"-1", "0", "1", "2"}
    THEN LET number == CASE data["number"] = "-1" -> 0 - 1
                         [] data["number"] = "0" -> 0
                         [] data["number"] = "1" -> 1
                         [] OTHER -> 2
             w == [v EXCEPT !.properties =
                      [k \in DOMAIN @ \cup {"current"} |->
                          IF k = "current" THEN [t |-> "int", n |-> number] ELSE @[k]]]
             ls == w.dropDownListener
             w1 == [w EXCEPT !.calls =
                       @ \o [j \in 1..Len(ls) |->
                                [fn |-> ls[j].id,
                                 args |-> IF ls[j].shape = "li" THEN <<"list", number>>
                                          ELSE <<number>>]]]
         IN  IF "current" \in DOMAIN w1.changeListener
             THEN [w1 EXCEPT !.calls = Append(@, [fn |-> w1.changeListener["current"],
                                                  args |-> <<"view", "current">>])]
             ELSE w1
    ELSE v

\* dropDownListData.handleCommand, the command "itemSelected"; the other
\* commands are those of the view
listHandleCommand(v, command, data) ==
    IF command = "itemSelected"
    THEN IF Has(data, "number")
         THEN LET parsed == ParseNumber(data["number"])
                  number == parsed.n
              IN  IF parsed.ok
                  THEN IF GetCurrent(v) # number /\ number >= 0 /\ number < Len(v.items)
                       THEN onSelectedItemChanged(
                                [v EXCEPT !.properties = MapPut(@, Current, IntVal(number))],
                                number)
                       ELSE v
                  ELSE ErrorLog(v, "strconv.Atoi: invalid syntax")
         ELSE v
    ELSE IF command \in TransitionEventTags
    THEN handleTransitionEvents(v, command, data)
    ELSE v

TheFirstDropDownListener == 5
TheSecondDropDownListener == 6

\* a drop-down list of two items with or without its listeners, with the first
\* or the second item selected, before or after it has been rendered
InitSelect ==
    /\ \E rendered \in BOOLEAN, listening \in BOOLEAN, current \in {0, 1} :
          LET v0 == NewViewData("DropDownList")
              v1 == Set(v0, Items, StrList(<<"a", "b">>)).v
              v2 == IF listening
                    THEN SetChangeListener(
                             Set(v1, DropDownEvent,
                                 AnyList(<<Func("li", TheFirstDropDownListener),
                                           Func("i", TheSecondDropDownListener)>>)).v,
                             Current, TheChangeListener)
                    ELSE v1
              v3 == IF current # 0 THEN Set(v2, Current, IntVal(current)).v ELSE v2
          IN  view = Begin(IF rendered THEN htmlProperties(v3) ELSE v3)
    /\ loopVarShared = FALSE
    /\ hist = <<>>
    /\ outstanding = {}
    /\ animations = <<>>
    /\ sessions = <<>>

SelectSet ==
    \E value \in {IntVal(0), IntVal(1), IntVal(2), Str("1"), Str("abc")} :
        LET r == Set(Begin(view), Current, value)
        IN  /\ Len(hist) < MaxSelectOps
            /\ view' = r.v
            /\ hist' = Append(hist, Entry("Set", Current, value, NilAnimation,
                                          r.ok, view, r.v))
            /\ UNCHANGED <<loopVarShared, outstanding, animations, sessions>>

SelectRemove ==
    LET w == Remove(Begin(view), Current)
    IN  /\ Len(hist) < MaxSelectOps
        /\ view' = w
        /\ hist' = Append(hist, Entry("Remove", Current, Nil, NilAnimation,
                                      TRUE, view, w))
        /\ UNCHANGED <<loopVarShared, outstanding, animations, sessions>>

\* the client reports that the user has selected an item
SelectCommand ==
    \E text \in CommandNumbers :
        LET w == listHandleCommand(Begin(view), "itemSelected",
                                   [k \in {"number"} |-> text])
        IN  /\ Len(hist) < MaxSelectOps
            /\ view' = w
            /\ hist' = Append(hist, Entry("itemSelected", Current, Str(text),
                                          NilAnimation, TRUE, view, w))
            /\ UNCHANGED <<loopVarShared, outstanding, animations, sessions>>

NextSelect ==
    \/ SelectSet
    \/ SelectRemove
    \/ SelectCommand

SpecSelect == InitSelect /\ [][NextSelect]_vars

\* the calls of a change of the selection to number: every drop-down listener
\* once, in the order of registration, and then the change listener of "current"
SelectionCalls(v, number) ==
    [j \in 1..Len(v.dropDownListener) |->
        [fn |-> v.dropDownListener[j].id,
         args |-> IF v.dropDownListener[j].shape = "li" THEN <<"list", number>>
                  ELSE <<number>>]]
        \o (IF Has(v.changeListener, Current)
            THEN <<[fn |-> v.changeListener[Current], args |-> <<"view", Current>>]>>
            ELSE <<>>)

\* C32: the drop-down listeners and then the change listener of "current" are
\* called, each once and for the new index, exactly when Set("current"),
\* Remove("current") or an itemSelected command changes the current index; an
\* itemSelected command whose number is the current index or lies outside
\* [0, number of items) changes nothing and calls no listener.
C32_SelectionNotifiedOnChange ==
    \A i \in 1..Len(hist) :
        LET e == hist[i]
            current == GetCurrent(e.post)
            parsed == ParseNumber(e.value.s)
        IN  /\ e.post.calls = IF current # GetCurrent(e.pre)
                              THEN SelectionCalls(e.pre, current)
                              ELSE <<>>
            /\ (/\ e.op = "itemSelected"
                /\ parsed.ok
                /\ (parsed.n = GetCurrent(e.pre) \/ parsed.n < 0
                       \/ parsed.n >= Len(e.pre.items)))
                   => e.post = Begin(e.pre)
            /\ (/\ e.op = "itemSelected"
                /\ parsed.ok
                /\ parsed.n # GetCurrent(e.pre) /\ parsed.n >= 0
                /\ parsed.n < Len(e.pre.items))
                   => current = parsed.n

\* a command has selected the other item of a list with listeners, and a
\* command for an item that the list does not have has arrived
C32_Witness ==
    /\ \E i \in 1..Len(hist) :
          /\ hist[i].op = "itemSelected"
          /\ GetCurrent(hist[i].post) # GetCurrent(hist[i].pre)
          /\ Len(hist[i].post.calls) = 3
    /\ \E i \in 1..Len(hist) :
          /\ hist[i].op = "itemSelected"
          /\ hist[i].value = Str("2")

-----------------------------------------------------------------------------
(* The scope of NewView in which updates are ignored: specification SpecScope *)

MaxScopeOps == 3

\* the session of the views: the flag read by ignoreViewUpdates and written by
\* setIgnoreViewUpdates
SessionOf(flag) == [ignoreUpdates |-> flag]
ignoreViewUpdates(session) == session.ignoreUpdates
setIgnoreViewUpdates(session, ignore) == [session EXCEPT !.ignoreUpdates = ignore]

\* "for _, tag := range params.AllTags() { view.Set(tag, value) }": the view
\* after the Sets and the flag of the session as each Set found it
RECURSIVE setAllParams(_, _, _, _, _)
setAllParams(v, session, m, tags, seen) ==
    IF tags = <<>>
    THEN [v |-> v, seen |-> seen]
    ELSE setAllParams(IF Has(m, Head(tags)) THEN Set(v, Head(tags), m[Head(tags)]).v ELSE v,
                      session, m, Tail(tags),
                      IF Has(m, Head(tags))
                      THEN Append(seen, ignoreViewUpdates(session))
                      ELSE seen)

\* a scope that is opened and closed whatever the flag was on entry
setInitParams_unscoped(v, session, params, tags) ==
    IF params = [t |-> "nil"]
    THEN [v |-> v, session |-> session, seen |-> <<>>]
    ELSE LET r == setAllParams(v, [session EXCEPT !.ignoreUpdates = TRUE], params.m,
                               tags, <<>>)
         IN  [v |-> r.v, session |-> [session EXCEPT !.ignoreUpdates = FALSE],
              seen |-> r.seen]

\* setInitParams(view, params); tags is the result of params.AllTags(); the
\* deferred call runs on return
setInitParams(v, session, params, tags) ==
    IF params = Nil
    THEN [v |-> v, session |-> session, seen |-> <<>>]
    ELSE LET scoped == ~ignoreViewUpdates(session)
             s1 == IF scoped THEN setIgnoreViewUpdates(session, TRUE) ELSE session
             r == setAllParams(v, s1, params.m, tags, <<>>)
         IN  [v |-> r.v,
              session |-> IF scoped THEN setIgnoreViewUpdates(s1, FALSE) ELSE s1,
              seen |-> r.seen]

\* NewView(session, params)
NewView(session, params, tags) ==
    setInitParams(NewViewData("View"), session, params, tags)

\* the parameters the views are created with
ScopeParams ==
    {Nil, Params(EmptyMap),
     Params([k \in {Opacity} |-> Float(5)]),
     Params([k \in {Opacity, ID} |-> IF k = ID THEN Str("x") ELSE Str("abc")])}

InitScope ==
    /\ view = NewViewData("View")
    /\ loopVarShared = FALSE
    /\ hist = <<>>
    /\ outstanding = {}
    /\ animations = <<>>
    /\ \E flag \in BOOLEAN : sessions = <<SessionOf(flag)>>

\* a view is created by the application, or by a container within its own scope
ScopeNewView ==
    \E params \in ScopeParams :
        \E tags \in Perms(IF params = Nil THEN {} ELSE DOMAIN params.m) :
            LET r == NewView(sessions[1], params, tags)
            IN  /\ Len(hist) < MaxScopeOps
                /\ view' = r.v
                /\ sessions' = <<r.session>>
                /\ hist' = Append(hist, [op |-> "NewView", params |-> params,
                                         seen |-> r.seen, before |-> sessions[1],
                                         after |-> r.session, post |-> r.v])
                /\ UNCHANGED <<loopVarShared, outstanding, animations>>

\* a caller opens or closes a scope of its own
ScopeSetIgnore ==
    \E ignore \in BOOLEAN :
        /\ Len(hist) < MaxScopeOps
        /\ sessions' = <<setIgnoreViewUpdates(sessions[1], ignore)>>
        /\ hist' = Append(hist, [op |-> "setIgnoreViewUpdates", params |-> Nil,
                                 seen |-> <<>>, before |-> sessions[1],
                                 after |-> setIgnoreViewUpdates(sessions[1], ignore),
                                 post |-> view])
        /\ UNCHANGED <<view, loopVarShared, outstanding, animations>>

NextScope ==
    \/ ScopeNewView
    \/ ScopeSetIgnore

SpecScope == InitScope /\ [][NextScope]_vars

\* C35: setInitParams leaves the flag of the session as it found it: when the
\* flag was false it is true during all the Sets and false on return, and when
\* it was true already it is true during the Sets and still true on return.
C35_ScopeRestoresFlag ==
    \A i \in 1..Len(hist) :
        LET e == hist[i]
        IN  e.op = "NewView" =>
                /\ ignoreViewUpdates(e.after) = ignoreViewUpdates(e.before)
                /\ \A k \in 1..Len(e.seen) : e.seen[k]
                /\ e.params # Nil => Len(e.seen) = Cardinality(DOMAIN e.params.m)

\* a view was created with two parameters within the scope of a caller, and
\* another outside of any scope
C35_Witness ==
    /\ \E i \in 1..Len(hist) :
          /\ hist[i].op = "NewView"
          /\ ignoreViewUpdates(hist[i].before)
          /\ Len(hist[i].seen) = 2
          /\ ignoreViewUpdates(hist[i].after)
    /\ \E i \in 1..Len(hist) :
          /\ hist[i].op = "NewView"
          /\ ~ignoreViewUpdates(hist[i].before)
          /\ Len(hist[i].seen) >= 1

-----------------------------------------------------------------------------
(* Overrides come to an end: specification SpecLive, with a fair rendering surface *)

MaxLiveOps == 2

\* outstanding holds the properties whose transition the rendering surface is
\* running: the surface knows a property by the lower-case name under which Set
\* has sent its value
InitLive == Init

\* SetAnimated is called a bounded number of times
LiveSetAnimated ==
    \E tag \in AnimatedTags, value \in AnimatedValues,
       animation \in Animations \cup {NilAnimation} :
        LET r == SetAnimated(Begin(view), tag, value, animation)
        IN  /\ Len(hist) < MaxLiveOps
            /\ view' = r.v
            /\ hist' = Append(hist, Entry("SetAnimated", tag, value, animation,
                                          r.ok, view, r.v))
            /\ outstanding' = IF animation # NilAnimation /\ r.ok
                              THEN outstanding \cup {ToLower(tag)}
                              ELSE outstanding
            /\ UNCHANGED <<loopVarShared, animations, sessions>>

\* the rendering surface reports the end or the cancellation of a transition
\* that it is running
LiveDeliver ==
    \E kind \in TerminalEvents, property \in outstanding :
        /\ view' = handleTransitionEvents(Begin(view), kind, EventData(property))
        /\ outstanding' = outstanding \ {property}
        /\ UNCHANGED <<loopVarShared, hist, animations, sessions>>

NextLive ==
    \/ LiveSetAnimated
    \/ LiveDeliver

\* the surface delivers the terminal event of every transition it runs
SpecLive == InitLive /\ [][NextLive]_vars /\ WF_vars(LiveDeliver)

\* C36: when the calls of SetAnimated have stopped and the rendering surface
\* has delivered an end or cancel event for every outstanding override,
\* singleTransition is empty from then on: eventually it is empty for ever.
C36_OverridesEventuallyEnd ==
    <>[](DOMAIN view.singleTransition = {})

====
